---- MODULE Spec2Model ----
(***************************************************************************)
(* minweb: the lexer (src/src/lexer), the processor run loop and include   *)
(* stack (src/src/processor) and the include-resolving special-directive   *)
(* callback (src/src/util).  Characters are one-character strings, text is *)
(* a sequence of characters, a stream is a text plus a read offset.        *)
(***************************************************************************)
EXTENDS Integers, Sequences, FiniteSets, TLC

VARIABLES
    streams,        \* stream id -> the characters of that std::istream
    spos,           \* stream id -> number of characters already extracted
    lexer,          \* the fields of processor::in (class lexer)
    tok,            \* run(): the local `tok`
    in_macro,       \* run(): the local `in_macro`
    input_stack,    \* processor::input_stack, top is the last element
    registered,     \* the set of callbacks that are non-empty std::functions
    includes,       \* include_processor_callback: the search path list
    pc,             \* position of the program: run loop, callback, finished
    cb,             \* the activation of the include callback, when pc = "cb"
    err,            \* the exception that left run(), when pc = "error"
    events,         \* history: the callbacks invoked, in order
    consumed,       \* history: stream id -> concatenated text of its tokens
    captured,       \* history: lexer state observed at each pending include
    resume,         \* history: set by the Eof pop, what the include captured
    lasttok,        \* history: where the last token lies in its stream
    inc,            \* history: stream id -> where and when it was included
    probe           \* a function of the lexer applied on its own: input and result

vars == <<streams, spos, lexer, tok, in_macro, input_stack, registered,
          includes, pc, cb, err, events, consumed, captured, resume, lasttok,
          inc, probe>>

(***************************************************************************)
(* Bounds of the model.                                                    *)
(***************************************************************************)
MaxRootSegs == 2    \* segments in the root document
MaxLexLen   == 5    \* characters in a stream given to the lexer alone
MaxPull     == 2    \* characters in a stream read one character at a time
MaxIncludes == 2    \* include_stream calls in one run
MaxInnerPieces == 3 \* pieces in the name of a macro begin given to its decoder
MaxCalls    == 9    \* callbacks the processor makes in one run of tangle
MaxFrags    == 2    \* fragments of a macro handed to the evaluation alone
MaxNode     == 3    \* node ids of a graph
MaxGraphCalls == 4  \* add_node and add_edge calls on one graph
MaxBodySegs == 2    \* segments in the first macro body of a document of tangle

(***************************************************************************)
(* Characters and token values.                                            *)
(***************************************************************************)
EOF == "EOF"
NL  == "\n"

MINWEB_TOKEN_EOF               == "EOF_TOKEN"
MINWEB_TOKEN_MACRO_START       == "MACRO_START"
MINWEB_TOKEN_MACRO_END         == "MACRO_END"
MINWEB_TOKEN_MACRO_REF         == "MACRO_REF"
MINWEB_TOKEN_PASSTHROUGH       == "PASSTHROUGH"
MINWEB_TOKEN_TEXT_SUBSTITUTION == "TEXT_SUBSTITUTION"
MINWEB_TOKEN_SPECIAL_DIRECTIVE == "SPECIAL_DIRECTIVE"
NoToken                        == "NONE"

(***************************************************************************)
(* The lexer.  Its operations take and return a scanning state `s`: the    *)
(* lexer's fields plus `spos`, the offsets of the streams it reads.        *)
(***************************************************************************)

\* lexer::lexer(input, name)
lexer_new(input, name) ==
    [in |-> input, in_name |-> name, curline |-> 1, curcol |-> 0,
     start_line |-> 0, start_col |-> 0, end_line |-> 0, end_col |-> 0,
     tokenbuf |-> <<>>, putbackbuf |-> <<>>]

\* std::istream::get() on stream `id`: the next character, or EOF for ever
stream_get(s, id) ==
    IF s.spos[id] < Len(streams[id])
      THEN [s  |-> [s EXCEPT !.spos[id] = @ + 1],
            ch |-> streams[id][s.spos[id] + 1]]
      ELSE [s |-> s, ch |-> EOF]

\* variant: a replayed character is counted again
read_char_counts_replay(s) ==
    LET r == IF Len(s.putbackbuf) > 0
               THEN [s  |-> [s EXCEPT !.putbackbuf = Tail(@)],
                     ch |-> Head(s.putbackbuf)]
               ELSE stream_get(s, s.in)
    IN  IF r.ch = NL
          THEN [s |-> [r.s EXCEPT !.curline = @ + 1, !.curcol = 0], ch |-> r.ch]
          ELSE [s |-> [r.s EXCEPT !.curcol = @ + 1], ch |-> r.ch]

\* lexer::read_char
read_char(s) ==
    IF Len(s.putbackbuf) > 0
      THEN [s  |-> [s EXCEPT !.putbackbuf = Tail(@)],
            ch |-> Head(s.putbackbuf)]
      ELSE LET g == stream_get(s, s.in)
           IN  IF g.ch = NL
                 THEN [s  |-> [g.s EXCEPT !.curline = @ + 1, !.curcol = 0],
                       ch |-> g.ch]
                 ELSE [s  |-> [g.s EXCEPT !.curcol = @ + 1],
                       ch |-> g.ch]

\* lexer::accept
accept(s, ch) ==
    [s EXCEPT !.end_line = s.curline, !.end_col = s.curcol,
              !.tokenbuf = Append(@, ch)]

\* variant: the token buffer is not cleared
start_no_clear(s, ch) ==
    accept([s EXCEPT !.start_line = s.curline, !.start_col = s.curcol], ch)

\* lexer::start
start(s, ch) ==
    accept([s EXCEPT !.start_line = s.curline, !.start_col = s.curcol,
                     !.tokenbuf = <<>>], ch)

\* lexer::put_back
put_back(s, ch) == [s EXCEPT !.putbackbuf = Append(@, ch)]

\* variant: the mismatching character is put back instead of accepted
fail_put_back(s, ch) ==
    [s   |-> IF ch # EOF THEN put_back(s, ch) ELSE s,
     tok |-> MINWEB_TOKEN_PASSTHROUGH]

\* variant: the mismatching character is neither accepted nor put back
fail_drops(s, ch) ==
    [s |-> s, tok |-> MINWEB_TOKEN_PASSTHROUGH]

\* the `fail:` label shared by the four maybeRead routines
fail(s, ch) ==
    [s   |-> IF ch # EOF THEN accept(s, ch) ELSE s,
     tok |-> MINWEB_TOKEN_PASSTHROUGH]

\* evaluate v once and hand the value to Op (a local variable of the code)
Bind(v, Op(_)) == CHOOSE y \in { Op(x) : x \in {v} } : TRUE

\* the loops `while (ch != EOF && ch != stop ...) { accept(ch); ch = read_char(); }`
\* entered with r, the result of the read_char before the loop
RECURSIVE accept_until(_, _)
accept_until(r, stops) ==
    IF r.ch = EOF \/ r.ch \in stops
      THEN r
      ELSE Bind(read_char(accept(r.s, r.ch)),
                LAMBDA n : accept_until(n, stops))

\* `ch = read_char(); if (ch != c) goto fail; accept(ch);` then Rest
expect(s0, c, Rest(_)) ==
    Bind(read_char(s0), LAMBDA r :
        IF r.ch # c THEN fail(r.s, r.ch) ELSE Rest(accept(r.s, r.ch)))

\* `ch = read_char(); if (ch == EOF || ch == c) goto fail; accept(ch);`
\* followed by the loop up to one of stops, then Rest on the loop's result
expect_some(s0, c, stops, Rest(_)) ==
    Bind(read_char(s0), LAMBDA r :
        IF r.ch = EOF \/ r.ch = c
          THEN fail(r.s, r.ch)
          ELSE Bind(read_char(accept(r.s, r.ch)), LAMBDA n :
                    Bind(accept_until(n, stops), Rest)))

\* lexer::maybeReadMacroEnd
maybeReadMacroEnd(s0) ==
    expect(s0, ">", LAMBDA s1 :
    expect(s1, "@", LAMBDA s2 :
    expect(s2, "<", LAMBDA s3 :
    expect(s3, "<", LAMBDA s4 :
    [s |-> s4, tok |-> MINWEB_TOKEN_MACRO_END]))))

\* variant: the peeked character is dropped instead of put back
macro_start_peek_no_put_back(s, ch) ==
    CASE ch = "=" -> [s |-> accept(s, ch), tok |-> MINWEB_TOKEN_MACRO_START]
      [] ch = EOF -> [s |-> s, tok |-> MINWEB_TOKEN_MACRO_REF]
      [] OTHER    -> [s |-> s, tok |-> MINWEB_TOKEN_MACRO_REF]

\* the `switch (ch)` that ends lexer::maybeReadMacroStart
macro_start_peek(s, ch) ==
    CASE ch = "=" -> [s |-> accept(s, ch), tok |-> MINWEB_TOKEN_MACRO_START]
      [] ch = EOF -> [s |-> s, tok |-> MINWEB_TOKEN_MACRO_REF]
      [] OTHER    -> [s |-> put_back(s, ch), tok |-> MINWEB_TOKEN_MACRO_REF]

\* lexer::maybeReadMacroStart
maybeReadMacroStart(s0) ==
    expect(s0, "<", LAMBDA s1 :
    expect_some(s1, ">", {">", NL}, LAMBDA r3 :
    IF r3.ch = EOF \/ r3.ch = NL THEN fail(r3.s, r3.ch) ELSE
    expect(accept(r3.s, r3.ch), ">", LAMBDA s5 :
    Bind(read_char(s5), LAMBDA r6 : macro_start_peek(r6.s, r6.ch)))))

\* variant: the token ends at `]`, the closing `%` is not required
maybeReadTextSubstitution_open(s0) ==
    expect(s0, "[", LAMBDA s1 :
    expect_some(s1, "]", {"]"}, LAMBDA r3 :
    IF r3.ch = EOF THEN fail(r3.s, r3.ch) ELSE
    [s |-> accept(r3.s, r3.ch), tok |-> MINWEB_TOKEN_TEXT_SUBSTITUTION]))

\* lexer::maybeReadTextSubstitution
maybeReadTextSubstitution(s0) ==
    expect(s0, "[", LAMBDA s1 :
    expect_some(s1, "]", {"]"}, LAMBDA r3 :
    IF r3.ch = EOF THEN fail(r3.s, r3.ch) ELSE
    expect(accept(r3.s, r3.ch), "%", LAMBDA s5 :
    [s |-> s5, tok |-> MINWEB_TOKEN_TEXT_SUBSTITUTION])))

\* lexer::maybeReadSpecialDirective
maybeReadSpecialDirective(s0) ==
    expect(s0, "[", LAMBDA s1 :
    expect_some(s1, "=", {"="}, LAMBDA r3 :
    IF r3.ch = EOF THEN fail(r3.s, r3.ch) ELSE
    expect_some(accept(r3.s, r3.ch), "]", {"]"}, LAMBDA r5 :
    IF r5.ch = EOF THEN fail(r5.s, r5.ch) ELSE
    [s |-> accept(r5.s, r5.ch), tok |-> MINWEB_TOKEN_SPECIAL_DIRECTIVE])))

\* lexer::read
read(s0) ==
    Bind(read_char(s0), LAMBDA r :
    CASE r.ch = EOF -> [s |-> [r.s EXCEPT !.tokenbuf = <<>>],
                        tok |-> MINWEB_TOKEN_EOF]
      [] r.ch = "<" -> maybeReadMacroStart(start(r.s, r.ch))
      [] r.ch = "%" -> maybeReadTextSubstitution(start(r.s, r.ch))
      [] r.ch = ">" -> maybeReadMacroEnd(start(r.s, r.ch))
      [] r.ch = "#" -> maybeReadSpecialDirective(start(r.s, r.ch))
      [] OTHER      -> [s |-> start(r.s, r.ch),
                        tok |-> MINWEB_TOKEN_PASSTHROUGH])

\* lexer::get_token_string
get_token_string(s) == s.tokenbuf

\* lexer::read_linecol
read_linecol(s) ==
    [name |-> s.in_name, sl |-> s.start_line, sc |-> s.start_col,
     el |-> s.start_line, ec |-> s.start_col + Len(s.tokenbuf) - 1]

\* lexer::get_input_state; putback is the caller's list as it is passed in:
\* `copy(putbackbuf.begin(), putbackbuf.end(), back_inserter(putback));`
get_input_state(s, putback) ==
    [input |-> s.in, name |-> s.in_name, line |-> s.curline,
     col |-> s.curcol, putback |-> putback \o s.putbackbuf]

\* variant: `putbackbuf.clear();` is absent, the copy appends
set_input_state_no_clear(s, input, input_name, line, col, putback) ==
    [s EXCEPT !.in = input, !.in_name = input_name, !.curline = line,
              !.curcol = col, !.putbackbuf = @ \o putback]

\* lexer::set_input_state
set_input_state(s, input, input_name, line, col, putback) ==
    [s EXCEPT !.in = input, !.in_name = input_name, !.curline = line,
              !.curcol = col, !.putbackbuf = putback]

(***************************************************************************)
(* The token decoders (static members of lexer).  Each returns a record    *)
(* with ok = FALSE and the message where the code throws lexer_error.      *)
(***************************************************************************)

\* std::string::find(c): the 1-based index of the first c in t, 0 for npos
find(t, c) ==
    IF \E i \in 1..Len(t) : t[i] = c
      THEN CHOOSE i \in 1..Len(t) : t[i] = c /\ \A j \in 1..(i-1) : t[j] # c
      ELSE 0

STR_include  == <<"i","n","c","l","u","d","e">>
STR_language == <<"l","a","n","g","u","a","g","e">>
STR_FILE     == <<"F","I","L","E">>
STR_SECTION  == <<"S","E","C","T","I","O","N">>

MINWEB_DIRECTIVE_TYPE_INCLUDE      == "INCLUDE"
MINWEB_DIRECTIVE_TYPE_LANGUAGE     == "LANGUAGE"
MINWEB_MACRO_TYPE_ROOT             == "ROOT"
MINWEB_MACRO_TYPE_DEFAULT          == "DEFAULT"
MINWEB_MACRO_TYPE_FILE             == "FILE"
MINWEB_MACRO_TYPE_SECTION          == "SECTION"
MINWEB_SUBSTITUTION_TYPE_DEFAULT    == "SUB_DEFAULT"
MINWEB_SUBSTITUTION_TYPE_ASSIGNMENT == "SUB_ASSIGNMENT"

\* variant: the directive is split at the last '=' of the token
decode_special_directive_last_equals(t) ==
    LET n  == Len(t)
        eq == IF \E i \in 1..n : t[i] = "="
                THEN CHOOSE i \in 1..n :
                        t[i] = "=" /\ \A j \in (i+1)..n : t[j] # "="
                ELSE 0
    IN  IF n < 4 \/ t[1] # "#" \/ t[2] # "[" \/ t[n] # "]" \/ eq = 0
          THEN [ok |-> FALSE, msg |-> "Malformed special directive", text |-> t]
        ELSE LET directive == SubSeq(t, 3, eq - 1)
                 value     == SubSeq(t, eq + 1, n - 1)
             IN  IF directive = STR_include
                   THEN [ok |-> TRUE, type |-> MINWEB_DIRECTIVE_TYPE_INCLUDE,
                         value |-> value]
                 ELSE IF directive = STR_language
                   THEN [ok |-> TRUE, type |-> MINWEB_DIRECTIVE_TYPE_LANGUAGE,
                         value |-> value]
                 ELSE [ok |-> FALSE, msg |-> "Unsupported directive type",
                       text |-> t]

\* lexer::decode_special_directive
decode_special_directive(t) ==
    LET n  == Len(t)
        eq == find(t, "=")
    IN  IF n < 4
          THEN [ok |-> FALSE, msg |-> "Malformed special directive", text |-> t]
        ELSE IF t[1] # "#" \/ t[2] # "[" \/ t[n] # "]" \/ eq = 0
          THEN [ok |-> FALSE, msg |-> "Malformed special directive", text |-> t]
        ELSE LET directive == SubSeq(t, 3, eq - 1)
                 value     == SubSeq(t, eq + 1, n - 1)
             IN  IF directive = STR_include
                   THEN [ok |-> TRUE, type |-> MINWEB_DIRECTIVE_TYPE_INCLUDE,
                         value |-> value]
                 ELSE IF directive = STR_language
                   THEN [ok |-> TRUE, type |-> MINWEB_DIRECTIVE_TYPE_LANGUAGE,
                         value |-> value]
                 ELSE [ok |-> FALSE, msg |-> "Unsupported directive type",
                       text |-> t]

\* variant: an unknown prefix is dropped from the name of a default macro
macro_type_from_macro_begin_default_suffix(t) ==
    LET n == Len(t)
    IN  IF n < 5
          THEN [ok |-> FALSE, msg |-> "Malformed macro statement", text |-> t]
        ELSE IF t[1] # "<" \/ t[2] # "<" \/ t[n-2] # ">" \/ t[n-1] # ">"
                \/ t[n] # "="
          THEN [ok |-> FALSE, msg |-> "Malformed macro statement", text |-> t]
        ELSE LET inner == SubSeq(t, 3, n - 3)
                 pos   == find(inner, ":")
             IN  IF inner = <<"*">>
                   THEN [ok |-> TRUE, type |-> MINWEB_MACRO_TYPE_ROOT,
                         name |-> inner]
                 ELSE IF pos = 0
                   THEN [ok |-> TRUE, type |-> MINWEB_MACRO_TYPE_DEFAULT,
                         name |-> inner]
                 ELSE LET typestr == SubSeq(inner, 1, pos - 1)
                          name    == SubSeq(inner, pos + 1, Len(inner))
                      IN  IF typestr = STR_FILE
                            THEN [ok |-> TRUE, type |-> MINWEB_MACRO_TYPE_FILE,
                                  name |-> name]
                          ELSE IF typestr = STR_SECTION
                            THEN [ok |-> TRUE,
                                  type |-> MINWEB_MACRO_TYPE_SECTION,
                                  name |-> name]
                          ELSE [ok |-> TRUE, type |-> MINWEB_MACRO_TYPE_DEFAULT,
                                name |-> name]

\* lexer::macro_type_from_macro_begin
macro_type_from_macro_begin(t) ==
    LET n == Len(t)
    IN  IF n < 5
          THEN [ok |-> FALSE, msg |-> "Malformed macro statement", text |-> t]
        ELSE IF t[1] # "<" \/ t[2] # "<" \/ t[n-2] # ">" \/ t[n-1] # ">"
                \/ t[n] # "="
          THEN [ok |-> FALSE, msg |-> "Malformed macro statement", text |-> t]
        ELSE LET inner == SubSeq(t, 3, n - 3)
                 pos   == find(inner, ":")
             IN  IF inner = <<"*">>
                   THEN [ok |-> TRUE, type |-> MINWEB_MACRO_TYPE_ROOT,
                         name |-> inner]
                 ELSE IF pos = 0
                   THEN [ok |-> TRUE, type |-> MINWEB_MACRO_TYPE_DEFAULT,
                         name |-> inner]
                 ELSE LET typestr == SubSeq(inner, 1, pos - 1)
                          name    == SubSeq(inner, pos + 1, Len(inner))
                      IN  IF typestr = STR_FILE
                            THEN [ok |-> TRUE, type |-> MINWEB_MACRO_TYPE_FILE,
                                  name |-> name]
                          ELSE IF typestr = STR_SECTION
                            THEN [ok |-> TRUE,
                                  type |-> MINWEB_MACRO_TYPE_SECTION,
                                  name |-> name]
                          ELSE [ok |-> TRUE, type |-> MINWEB_MACRO_TYPE_DEFAULT,
                                name |-> inner]

\* lexer::decode_macro_ref
decode_macro_ref(t) ==
    LET n == Len(t)
    IN  IF n < 4
          THEN [ok |-> FALSE, msg |-> "Malformed macro reference", text |-> t]
        ELSE IF t[1] # "<" \/ t[2] # "<" \/ t[n-1] # ">" \/ t[n] # ">"
          THEN [ok |-> FALSE, msg |-> "Malformed macro reference", text |-> t]
        ELSE [ok |-> TRUE, name |-> SubSeq(t, 3, n - 2)]

\* lexer::substitution_type_from_text_substitution
substitution_type_from_text_substitution(t) ==
    LET n == Len(t)
    IN  IF n < 4
          THEN [ok |-> FALSE, msg |-> "Malformed text substitution", text |-> t]
        ELSE IF t[1] # "%" \/ t[2] # "[" \/ t[n-1] # "]" \/ t[n] # "%"
          THEN [ok |-> FALSE, msg |-> "Malformed text substitution", text |-> t]
        ELSE LET inner == SubSeq(t, 3, n - 2)
                 pos   == find(inner, "=")
             IN  IF pos = 0
                   THEN [ok |-> TRUE, type |-> MINWEB_SUBSTITUTION_TYPE_DEFAULT,
                         key |-> inner, value |-> <<>>]
                   ELSE [ok |-> TRUE,
                         type |-> MINWEB_SUBSTITUTION_TYPE_ASSIGNMENT,
                         key |-> SubSeq(inner, 1, pos - 1),
                         value |-> SubSeq(inner, pos + 1, Len(inner))]

(***************************************************************************)
(* Documents.  A document is a concatenation of at most a bounded number   *)
(* of segments; the segments are the lexemes of the grammar and the        *)
(* characters that start, break or follow them.                            *)
(***************************************************************************)
SEG_ref       == <<"<","<","a",">",">">>
SEG_start     == SEG_ref \o <<"=">>
SEG_end       == <<">",">","@","<","<">>
SEG_include   == <<"#","[">> \o STR_include \o <<"=","x","]">>
SEG_language  == <<"#","[">> \o STR_language \o <<"=","c","]">>
SEG_badinc    == <<"#","[","z","=","x","]">>
SEG_subst     == <<"%","[","k","=","v","]","%">>

RootSegs == { <<"a">>, <<NL>>, <<"=">>, <<"<">>, <<">">>, SEG_ref, SEG_start,
              SEG_end, SEG_include, SEG_language, SEG_badinc, SEG_subst }

RECURSIVE Flatten(_)
Flatten(ss) == IF ss = <<>> THEN <<>> ELSE Head(ss) \o Flatten(Tail(ss))

Docs(segs, n) == { Flatten(ss) : ss \in UNION { [1..k -> segs] : k \in 0..n } }

\* longer documents: a macro with text, a reference and an end around an
\* include; an include between two lines of text inside a macro; a directive
\* whose value holds a second '='
LongDocs == { SEG_start \o <<"a">> \o SEG_ref \o <<NL>> \o SEG_end
                  \o SEG_include \o <<"a">>,
              <<"a", NL>> \o SEG_start \o SEG_include \o SEG_ref
                  \o <<NL>> \o SEG_end,
              <<"#","[">> \o STR_language \o <<"=","c","=","d","]","a">> }

\* the root document: at most MaxRootSegs segments, or a longer document
RootDocs == Docs(RootSegs, MaxRootSegs) \cup LongDocs

\* the documents an include may open: empty, text over two lines, an
\* unbalanced begin, an unbalanced end, a nested include followed by text,
\* a reference followed by text
IncDocs  == { <<>>, <<NL, "a">>, SEG_start, SEG_end, SEG_include \o <<"a">>,
              SEG_ref \o <<"a">> }

RootStream == 1
RootName   == <<"r">>

(***************************************************************************)
(* Callback registration and the include search path.                      *)
(***************************************************************************)
AllCallbacks == { "passthrough", "macro_begin", "macro_end", "macro_ref",
                  "text_substitution", "special_directive", "prev" }

Configs == { [registered |-> AllCallbacks, includes |-> <<"p", "q">>],
             [registered |-> AllCallbacks \ {"prev"}, includes |-> <<"p">>],
             [registered |-> AllCallbacks, includes |-> <<>>],
             [registered |-> {}, includes |-> <<>>] }

NoCb     == [active |-> FALSE]
NoErr    == [raised |-> FALSE]
NoResume == [set |-> FALSE]
NoTok    == [stream |-> 0, from |-> 0, to |-> 0]
NoProbe  == [op |-> "none"]
NoInc    == [parent |-> 0, point |-> 0, opened_at |-> 0, closed |-> FALSE,
             closed_at |-> 0]

Init ==
    /\ \E d \in RootDocs : streams = <<d>>
    /\ spos = <<0>>
    /\ lexer = lexer_new(RootStream, RootName)
    /\ tok = NoToken
    /\ in_macro = FALSE
    /\ input_stack = <<>>
    /\ \E c \in Configs : registered = c.registered /\ includes = c.includes
    /\ pc = "read"
    /\ cb = NoCb
    /\ err = NoErr
    /\ events = <<>>
    /\ consumed = << <<>> >>
    /\ captured = <<>>
    /\ resume = NoResume
    /\ lasttok = NoTok
    /\ inc = << NoInc >>
    /\ probe = NoProbe

(***************************************************************************)
(* processor::run, one loop iteration per action.                          *)
(***************************************************************************)
Scan(lx, sp) ==
    [in |-> lx.in, in_name |-> lx.in_name, curline |-> lx.curline,
     curcol |-> lx.curcol, start_line |-> lx.start_line,
     start_col |-> lx.start_col, end_line |-> lx.end_line,
     end_col |-> lx.end_col, tokenbuf |-> lx.tokenbuf,
     putbackbuf |-> lx.putbackbuf, spos |-> sp]

LexOf(s) ==
    [in |-> s.in, in_name |-> s.in_name, curline |-> s.curline,
     curcol |-> s.curcol, start_line |-> s.start_line,
     start_col |-> s.start_col, end_line |-> s.end_line,
     end_col |-> s.end_col, tokenbuf |-> s.tokenbuf,
     putbackbuf |-> s.putbackbuf]

\* what a read in lexer state lx would return: token, text and position
NextToken(lx, sp) ==
    Bind(read(Scan(lx, sp)), LAMBDA r :
        [tok |-> r.tok, text |-> get_token_string(r.s),
         at |-> read_linecol(r.s)])

\* history: the lexer state as an observer sees it when include_stream is called
Observe(lx, sp) ==
    [in |-> lx.in, in_name |-> lx.in_name, curline |-> lx.curline,
     curcol |-> lx.curcol, putbackbuf |-> lx.putbackbuf, pos |-> sp[lx.in],
     next |-> NextToken(lx, sp)]

\* `tok = in.read();` at the top of the loop body
Read ==
    /\ pc = "read"
    /\ \E r \in { read(Scan(lexer, spos)) } :
          /\ lexer' = LexOf(r.s)
          /\ spos' = r.s.spos
          /\ tok' = r.tok
          /\ consumed' = [consumed EXCEPT ![lexer.in] =
                                              @ \o get_token_string(r.s)]
          /\ lasttok' = [stream |-> lexer.in,
                         from   |-> spos[lexer.in] - Len(lexer.putbackbuf) + 1,
                         to     |-> r.s.spos[lexer.in] - Len(r.s.putbackbuf)]
    /\ pc' = "dispatch"
    /\ resume' = NoResume
    /\ UNCHANGED <<streams, in_macro, input_stack, registered, includes, cb,
                   err, events, captured, inc, probe>>

\* `in.read_linecol(name, line, col, endline, endcol);
\*  failout << "Error in " << name << " at " << line << ":" << col << ": " << msg;
\*  throw processor_error(failout.str());`
located_error(msg) ==
    LET at == read_linecol(lexer)
    IN  [raised |-> TRUE, type |-> "processor_error", located |-> TRUE,
         name |-> at.name, line |-> at.sl, col |-> at.sc, msg |-> msg]

\* an exception whose text carries no position
bare_error(type, msg, text) ==
    [raised |-> TRUE, type |-> type, located |-> FALSE, msg |-> msg,
     text |-> text]

\* variant: `while (true)`
loop_condition_forever(t) == "read"

\* `while (tok != MINWEB_TOKEN_EOF)`
loop_condition(t) == IF t # MINWEB_TOKEN_EOF THEN "read" ELSE "done"

\* history: one callback invocation, with the stream and offset of its token
Event(name, arg) ==
    [cb |-> name, arg |-> arg, stream |-> lasttok.stream, from |-> lasttok.from]

\* `if (!!callback) callback(arg)`
invoke(name, arg) ==
    IF name \in registered THEN Append(events, Event(name, arg)) ELSE events

\* variant: the include stack is tested before in_macro
eof_case_stack_first(inm, stack) ==
    IF Len(stack) > 0 THEN "pop"
    ELSE IF inm THEN "throw"
    ELSE "exit"

\* variant: the `else if (input_stack.size() > 0)` branch is absent
eof_case_no_pop(inm, stack) ==
    IF inm THEN "throw" ELSE "exit"

\* the order of the tests in `case MINWEB_TOKEN_EOF`
eof_case(inm, stack) ==
    IF inm THEN "throw"
    ELSE IF Len(stack) > 0 THEN "pop"
    ELSE "exit"

\* variant: the token is left as it was read
eof_pop_tok_kept == MINWEB_TOKEN_EOF

\* `tok = MINWEB_TOKEN_PASSTHROUGH;` the dummy token stubbed after a pop
eof_pop_tok == MINWEB_TOKEN_PASSTHROUGH

\* `switch (tok)`: the part every case shares
Case(t) ==
    /\ pc = "dispatch"
    /\ tok = t
    /\ resume' = NoResume
    /\ UNCHANGED <<spos, registered, includes, consumed, lasttok, inc, probe>>

\* a case that throws "Error in <name> at <line>:<col>: <msg>"
Throw(msg) ==
    /\ pc' = "error"
    /\ err' = located_error(msg)
    /\ UNCHANGED <<streams, lexer, tok, in_macro, input_stack, cb, events,
                   captured>>

\* a case that ends in `break` without touching the include stack
Break ==
    /\ pc' = loop_condition(tok)
    /\ UNCHANGED <<streams, lexer, tok, input_stack, cb, err, captured>>

\* a decoder's lexer_error leaves run() as it is
ThrowDecode(d) ==
    /\ pc' = "error"
    /\ err' = bare_error("lexer_error", d.msg, d.text)
    /\ UNCHANGED <<streams, lexer, tok, input_stack, cb, events, captured>>

\* case MINWEB_TOKEN_EOF, in_macro
EofInMacro ==
    /\ Case(MINWEB_TOKEN_EOF)
    /\ eof_case(in_macro, input_stack) = "throw"
    /\ Throw("Expected a macro end.")

\* case MINWEB_TOKEN_EOF, input_stack.size() > 0
EofPop ==
    /\ pc = "dispatch"
    /\ tok = MINWEB_TOKEN_EOF
    /\ eof_case(in_macro, input_stack) = "pop"
    /\ LET val == input_stack[Len(input_stack)]
       IN  lexer' = set_input_state(lexer, val.input, val.name, val.line,
                                    val.col, val.putback)
    /\ input_stack' = SubSeq(input_stack, 1, Len(input_stack) - 1)
    /\ tok' = eof_pop_tok
    /\ pc' = loop_condition(tok')
    /\ resume' = [set |-> TRUE, cap |-> captured[Len(captured)]]
    /\ captured' = SubSeq(captured, 1, Len(captured) - 1)
    /\ inc' = [inc EXCEPT ![lexer.in].closed = TRUE,
                          ![lexer.in].closed_at = Len(events)]
    /\ UNCHANGED <<streams, spos, in_macro, registered, includes, cb, err,
                   events, consumed, lasttok, probe>>

\* case MINWEB_TOKEN_EOF, neither: the loop ends and run() returns
EofReturn ==
    /\ Case(MINWEB_TOKEN_EOF)
    /\ eof_case(in_macro, input_stack) = "exit"
    /\ Break
    /\ UNCHANGED <<in_macro, events>>

\* variant: the nesting test is absent
macro_start_unguarded(inm) == FALSE

\* `if (in_macro)` of case MINWEB_TOKEN_MACRO_START: nesting is an error
macro_start_nested(inm) == inm

\* variant: the `if (!in_macro)` test of MINWEB_TOKEN_MACRO_END is absent
macro_end_unguarded(inm) == FALSE

\* `if (!in_macro)` of case MINWEB_TOKEN_MACRO_END
macro_end_dangling(inm) == ~inm

\* variant: the `if (!in_macro)` test of MINWEB_TOKEN_MACRO_REF is absent
macro_ref_unguarded(inm) == FALSE

\* `if (!in_macro)` of case MINWEB_TOKEN_MACRO_REF
macro_ref_dangling(inm) == ~inm

\* case MINWEB_TOKEN_MACRO_START, in_macro
MacroStartNested ==
    /\ Case(MINWEB_TOKEN_MACRO_START)
    /\ macro_start_nested(in_macro)
    /\ Throw("Macros cannot be nested.")

\* case MINWEB_TOKEN_MACRO_START
MacroStart ==
    /\ Case(MINWEB_TOKEN_MACRO_START)
    /\ ~macro_start_nested(in_macro)
    /\ in_macro' = TRUE
    /\ LET d == macro_type_from_macro_begin(get_token_string(lexer))
       IN  IF "macro_begin" \in registered /\ ~d.ok
             THEN ThrowDecode(d)
             ELSE /\ events' = invoke("macro_begin",
                                      [type |-> d.type, name |-> d.name])
                  /\ Break

\* case MINWEB_TOKEN_MACRO_END, !in_macro
MacroEndDangling ==
    /\ Case(MINWEB_TOKEN_MACRO_END)
    /\ macro_end_dangling(in_macro)
    /\ Throw("Macro end with no macro begin.")

\* case MINWEB_TOKEN_MACRO_END
MacroEnd ==
    /\ Case(MINWEB_TOKEN_MACRO_END)
    /\ ~macro_end_dangling(in_macro)
    /\ in_macro' = FALSE
    /\ events' = invoke("macro_end", <<>>)
    /\ Break

\* case MINWEB_TOKEN_MACRO_REF, !in_macro
MacroRefDangling ==
    /\ Case(MINWEB_TOKEN_MACRO_REF)
    /\ macro_ref_dangling(in_macro)
    /\ Throw("Macro references can only occur in macro bodies.")

\* case MINWEB_TOKEN_MACRO_REF
MacroRef ==
    /\ Case(MINWEB_TOKEN_MACRO_REF)
    /\ ~macro_ref_dangling(in_macro)
    /\ LET d == decode_macro_ref(get_token_string(lexer))
       IN  IF "macro_ref" \in registered /\ ~d.ok
             THEN ThrowDecode(d)
             ELSE /\ events' = invoke("macro_ref", d.name)
                  /\ Break
    /\ UNCHANGED in_macro

\* variant: a text substitution outside a macro is a structural error
TextSubstitutionInMacroOnly ==
    /\ Case(MINWEB_TOKEN_TEXT_SUBSTITUTION)
    /\ IF ~in_macro
         THEN Throw("Text substitutions can only occur in macro bodies.")
         ELSE LET d == substitution_type_from_text_substitution(
                           get_token_string(lexer))
              IN  /\ events' = invoke("text_substitution",
                           [type |-> d.type, key |-> d.key, value |-> d.value])
                  /\ Break
    /\ UNCHANGED in_macro

\* case MINWEB_TOKEN_TEXT_SUBSTITUTION
TextSubstitution ==
    /\ Case(MINWEB_TOKEN_TEXT_SUBSTITUTION)
    /\ LET d == substitution_type_from_text_substitution(
                    get_token_string(lexer))
       IN  IF "text_substitution" \in registered /\ ~d.ok
             THEN ThrowDecode(d)
             ELSE /\ events' = invoke("text_substitution",
                           [type |-> d.type, key |-> d.key, value |-> d.value])
                  /\ Break
    /\ UNCHANGED in_macro

\* case MINWEB_TOKEN_PASSTHROUGH
Passthrough ==
    /\ Case(MINWEB_TOKEN_PASSTHROUGH)
    /\ events' = invoke("passthrough", get_token_string(lexer))
    /\ Break
    /\ UNCHANGED in_macro

\* variant: the saved state goes to the bottom of the include stack
include_stream_fifo(lx, stack, input, name) ==
    LET prev == get_input_state(lx, <<>>)
    IN  [lexer       |-> set_input_state(lx, input, name, 1, 0, <<>>),
         input_stack |-> <<prev>> \o stack]

\* processor::include_stream, on the processor's lexer and include stack;
\* `list<int> prev_putback;` is a new, empty list
include_stream(lx, stack, input, name) ==
    LET prev == get_input_state(lx, <<>>)
    IN  [lexer       |-> set_input_state(lx, input, name, 1, 0, <<>>),
         input_stack |-> Append(stack, prev)]

\* a stream is opened on document c and handed to include_stream; n is the
\* number of callbacks invoked so far
OpenAndInclude(c, name, n) ==
    /\ Len(streams) - 1 < MaxIncludes
    /\ streams' = Append(streams, c)
    /\ spos' = Append(spos, 0)
    /\ consumed' = Append(consumed, <<>>)
    /\ LET p == include_stream(lexer, input_stack, Len(streams) + 1, name)
       IN  /\ lexer' = p.lexer
           /\ input_stack' = p.input_stack
    /\ captured' = Append(captured, Observe(lexer, spos))
    /\ inc' = Append(inc, [parent    |-> lexer.in,
                           point     |-> spos[lexer.in] - Len(lexer.putbackbuf),
                           opened_at |-> n,
                           closed    |-> FALSE,
                           closed_at |-> 0])

\* case MINWEB_TOKEN_MACRO_REF, with a macro-ref callback of the client that
\* calls include_stream (the call the lexer tests make after a MacroRef)
MacroRefInclude ==
    /\ pc = "dispatch"
    /\ tok = MINWEB_TOKEN_MACRO_REF
    /\ ~macro_ref_dangling(in_macro)
    /\ "macro_ref" \in registered
    /\ LET d == decode_macro_ref(get_token_string(lexer))
       IN  /\ d.ok
           /\ events' = invoke("macro_ref", d.name)
           /\ \E c \in IncDocs :
                  OpenAndInclude(c, d.name, Len(invoke("macro_ref", d.name)))
    /\ pc' = loop_condition(tok)
    /\ resume' = NoResume
    /\ UNCHANGED <<tok, in_macro, registered, includes, cb, err, lasttok,
                   probe>>

\* variant: prev is called for Include directives only
call_prev_include_only(es, d) ==
    IF "prev" \in registered /\ d.type = MINWEB_DIRECTIVE_TYPE_INCLUDE
      THEN Append(es, Event("prev", d))
      ELSE es

\* the end of the include handler: `if (!!prev) { prev(d); }`; es are the
\* callbacks invoked so far
call_prev(es, d) ==
    IF "prev" \in registered THEN Append(es, Event("prev", d)) ELSE es

\* case MINWEB_TOKEN_SPECIAL_DIRECTIVE, decode_special_directive throws:
\* `catch (lexer_error& e) { throw processor_error(e.what()); }`
SpecialDirectiveBad ==
    /\ Case(MINWEB_TOKEN_SPECIAL_DIRECTIVE)
    /\ LET d == decode_special_directive(get_token_string(lexer))
       IN  /\ ~d.ok
           /\ err' = bare_error("processor_error", d.msg, d.text)
    /\ pc' = "error"
    /\ UNCHANGED <<streams, lexer, tok, in_macro, input_stack, cb, events,
                   captured>>

\* case MINWEB_TOKEN_SPECIAL_DIRECTIVE: no callback, or the callback (the
\* lambda of include_processor_callback) gets a directive other than Include
\* and only calls prev
SpecialDirective ==
    /\ Case(MINWEB_TOKEN_SPECIAL_DIRECTIVE)
    /\ LET d == decode_special_directive(get_token_string(lexer))
           a == [type |-> d.type, value |-> d.value]
       IN  /\ d.ok
           /\ \/ "special_directive" \notin registered /\ UNCHANGED events
              \/ /\ "special_directive" \in registered
                 /\ d.type # MINWEB_DIRECTIVE_TYPE_INCLUDE
                 /\ events' =
                      call_prev(Append(events, Event("special_directive", a)),
                                a)
    /\ Break
    /\ UNCHANGED in_macro

\* case MINWEB_TOKEN_SPECIAL_DIRECTIVE: the callback gets an Include directive
\* and enters `for (auto include_path : includes)`
SpecialDirectiveInclude ==
    /\ Case(MINWEB_TOKEN_SPECIAL_DIRECTIVE)
    /\ "special_directive" \in registered
    /\ LET d == decode_special_directive(get_token_string(lexer))
           a == [type |-> d.type, value |-> d.value]
       IN  /\ d.ok
           /\ d.type = MINWEB_DIRECTIVE_TYPE_INCLUDE
           /\ events' = invoke("special_directive", a)
           /\ cb' = [active |-> TRUE, d |-> a, i |-> 1]
    /\ pc' = "cb"
    /\ UNCHANGED <<streams, lexer, tok, input_stack, captured, in_macro, err>>

\* `string pathname = include_path + "/" + d.second;`
pathname(include_path, value) == <<include_path>> \o <<"/">> \o value

\* the part shared by the steps of the callback's loop
InCallback ==
    /\ pc = "cb"
    /\ cb.i <= Len(includes)
    /\ tok' = tok
    /\ resume' = NoResume
    /\ UNCHANGED <<registered, includes, in_macro, lasttok, probe>>

\* one iteration of the loop: stat() fails, the path is skipped
IncludeMissing ==
    /\ InCallback
    /\ cb' = [cb EXCEPT !.i = @ + 1]
    /\ UNCHANGED <<streams, spos, lexer, input_stack, pc, err, events,
                   consumed, captured, inc>>

\* one iteration of the loop: the file exists but `!stream->good()`
IncludeUnreadable ==
    /\ InCallback
    /\ pc' = "error"
    /\ err' = bare_error("processor_error", "error: could not open",
                         pathname(includes[cb.i], cb.d.value))
    /\ UNCHANGED <<streams, spos, lexer, input_stack, cb, events, consumed,
                   captured, inc>>

\* one iteration of the loop: the file exists and opens;
\* `(*p)->include_stream(stream.get(), pathname);`
IncludeFound ==
    /\ InCallback
    /\ \E c \in IncDocs :
          OpenAndInclude(c, pathname(includes[cb.i], cb.d.value), Len(events))
    /\ cb' = [cb EXCEPT !.i = @ + 1]
    /\ UNCHANGED <<pc, err, events>>

\* after the loop: `if (!!prev) prev(d);` and back to the run loop
IncludeReturn ==
    /\ pc = "cb"
    /\ cb.i > Len(includes)
    /\ events' = call_prev(events, cb.d)
    /\ cb' = NoCb
    /\ pc' = loop_condition(tok)
    /\ resume' = NoResume
    /\ UNCHANGED <<streams, spos, lexer, tok, in_macro, input_stack,
                   registered, includes, err, consumed, captured, lasttok,
                   inc, probe>>

Next ==
    \/ Read
    \/ EofInMacro
    \/ EofPop
    \/ EofReturn
    \/ MacroStartNested
    \/ MacroStart
    \/ MacroEndDangling
    \/ MacroEnd
    \/ MacroRefDangling
    \/ MacroRef
    \/ MacroRefInclude
    \/ TextSubstitution
    \/ Passthrough
    \/ SpecialDirectiveBad
    \/ SpecialDirective
    \/ SpecialDirectiveInclude
    \/ IncludeMissing
    \/ IncludeUnreadable
    \/ IncludeFound
    \/ IncludeReturn

Spec == Init /\ [][Next]_vars

TypeOK ==
    /\ pc \in {"read", "dispatch", "cb", "done", "error"}
    /\ Len(spos) = Len(streams)
    /\ Len(consumed) = Len(streams)
    /\ Len(captured) = Len(input_stack)
    /\ Len(inc) = Len(streams)
    /\ in_macro \in BOOLEAN

(***************************************************************************)
(* Properties of processor::run.                                           *)
(***************************************************************************)
\* the step taken from a state where run() is about to dispatch token t
Dispatching(t) == pc = "dispatch" /\ tok = t

\* the callbacks invoked by a step, in order
Delivered == SubSeq(events', Len(events) + 1, Len(events'))

\* a step invokes no callback
Silent == events' = events

\* a step throws processor_error "Error in ... : msg"
Throws(msg) ==
    /\ pc' = "error"
    /\ err'.raised
    /\ err'.type = "processor_error"
    /\ err'.located
    /\ err'.msg = msg

\* C1: an Eof read while a macro is open makes run() throw processor_error
\* "Expected a macro end." whether or not the include stack is empty: the
\* stack is not popped, the lexer is not restored and the loop does not go on.
C1_EofInMacroThrows ==
    [][(Dispatching(MINWEB_TOKEN_EOF) /\ in_macro)
          => /\ Throws("Expected a macro end.")
             /\ input_stack' = input_stack
             /\ lexer' = lexer
             /\ Silent]_vars

\* an included stream ended inside a macro and run() threw
C1_Witness ==
    /\ pc = "error"
    /\ err.located
    /\ err.msg = "Expected a macro end."
    /\ Len(input_stack) > 0
    /\ tok = MINWEB_TOKEN_EOF
    /\ in_macro

\* C2: a MacroStart read while a macro is open throws "Macros cannot be
\* nested." without invoking the macro-begin callback; read while no macro is
\* open it sets in_macro and invokes the macro-begin callback, if registered,
\* exactly once with the decoded (kind, name) of the token.
C2_MacroStart ==
    [][Dispatching(MINWEB_TOKEN_MACRO_START)
          => IF in_macro
               THEN Throws("Macros cannot be nested.") /\ Silent
               ELSE /\ in_macro'
                    /\ pc' = "read"
                    /\ Delivered =
                         IF "macro_begin" \in registered
                           THEN LET d == macro_type_from_macro_begin(
                                             lexer.tokenbuf)
                                IN  << [cb     |-> "macro_begin",
                                        arg    |-> [type |-> d.type,
                                                    name |-> d.name],
                                        stream |-> lasttok.stream,
                                        from   |-> lasttok.from] >>
                           ELSE << >>]_vars

\* a second MacroStart was refused after the first one was delivered
C2_Witness ==
    /\ pc = "error"
    /\ err.located
    /\ err.msg = "Macros cannot be nested."
    /\ in_macro
    /\ Len(events) > 0
    /\ \A i \in 1..Len(events) :
          events[i].cb = "macro_begin" =>
             /\ i = 1
             /\ events[i].arg = [type |-> MINWEB_MACRO_TYPE_DEFAULT,
                                 name |-> <<"a">>]
    /\ events[1].cb = "macro_begin"

\* C3: a MacroEnd or a MacroRef read while no macro is open throws
\* processor_error and invokes neither the macro-end nor the macro-ref
\* callback.
C3_EndOrRefOutsideMacro ==
    [][(/\ pc = "dispatch"
        /\ tok \in {MINWEB_TOKEN_MACRO_END, MINWEB_TOKEN_MACRO_REF}
        /\ ~in_macro)
          => /\ Throws(IF tok = MINWEB_TOKEN_MACRO_END
                         THEN "Macro end with no macro begin."
                         ELSE "Macro references can only occur in macro bodies.")
             /\ Silent
             /\ in_macro' = in_macro]_vars

\* a MacroRef was refused after a macro had been closed
C3_Witness ==
    /\ pc = "error"
    /\ err.located
    /\ err.msg = "Macro references can only occur in macro bodies."
    /\ tok = MINWEB_TOKEN_MACRO_REF
    /\ ~in_macro
    /\ \E i \in 1..Len(events) : events[i].cb = "macro_end"
    /\ \A i \in 1..Len(events) : events[i].cb # "macro_ref"

\* C4: an Eof read while no macro is open pops and restores exactly the top
\* of a non-empty include stack and the loop goes on; run() returns normally
\* only on an Eof read with an empty stack and no macro open, so that on
\* normal return the stack is empty and no macro is open.
C4_EofPopsOrReturns ==
    /\ [](pc = "done" => (/\ input_stack = <<>>
                          /\ ~in_macro
                          /\ ~err.raised))
    /\ [][(pc' = "done" /\ pc # "done")
             => (/\ Dispatching(MINWEB_TOKEN_EOF)
                 /\ input_stack = <<>>
                 /\ ~in_macro)]_vars
    /\ [][(Dispatching(MINWEB_TOKEN_EOF) /\ ~in_macro)
             => IF Len(input_stack) > 0
                  THEN LET top == input_stack[Len(input_stack)]
                       IN  /\ input_stack' = SubSeq(input_stack, 1,
                                                    Len(input_stack) - 1)
                           /\ lexer'.in = top.input
                           /\ lexer'.in_name = top.name
                           /\ lexer'.curline = top.line
                           /\ lexer'.curcol = top.col
                           /\ lexer'.putbackbuf = top.putback
                           /\ pc' = "read"
                           /\ ~in_macro'
                  ELSE pc' = "done"]_vars

\* run() returned after two nested included streams were popped
C4_Witness ==
    /\ pc = "done"
    /\ Len(streams) > 2
    /\ \E t \in 2..Len(streams) :
          /\ inc[t].parent # RootStream
          /\ inc[t].closed
          /\ inc[inc[t].parent].closed

\* the lexer is back at the scanning state captured when include_stream was
\* called: stream, name, line, column, put-back queue and stream offset
Restored(cap) ==
    /\ lexer.in = cap.in
    /\ lexer.in_name = cap.in_name
    /\ lexer.curline = cap.curline
    /\ lexer.curcol = cap.curcol
    /\ lexer.putbackbuf = cap.putbackbuf
    /\ spos[lexer.in] = cap.pos

\* the token read next is the one that would have been read at the capture,
\* under the including stream's name and with the same start position
SameNextToken(cap) ==
    LET n == NextToken(lexer, spos)
    IN  /\ n.tok = cap.next.tok
        /\ n.text = cap.next.text
        /\ n.at.name = cap.in_name
        /\ n.at.sl = cap.next.at.sl
        /\ n.at.sc = cap.next.at.sc

\* C5: include round trip.  Once the stream given to include_stream has
\* reached Eof with no macro open, the lexer's stream, name, line, column and
\* put-back queue are the values captured at the include_stream call, and the
\* next token is the one that would have been read had no include happened,
\* under the including stream's name and with the same start line and column.
C5_IncludeRoundTrip ==
    resume.set => (Restored(resume.cap) /\ SameNextToken(resume.cap))

\* what does hold of the round trip: the scanning state is restored, and the
\* next token is the same token under the including stream's name; its start
\* position is the same unless it is Eof, which read() returns without
\* calling start(), so that it reports the start of the last token of the
\* included stream
C5_RoundTripButEofPosition ==
    resume.set =>
        /\ Restored(resume.cap)
        /\ LET n == NextToken(lexer, spos)
           IN  /\ n.tok = resume.cap.next.tok
               /\ n.text = resume.cap.next.text
               /\ n.at.name = resume.cap.in_name
               /\ n.tok # MINWEB_TOKEN_EOF => SameNextToken(resume.cap)

\* stream u is stream t or was included, directly or not, from stream t
RECURSIVE IsWithin(_, _)
IsWithin(u, t) ==
    \/ u = t
    \/ u # RootStream /\ IsWithin(inc[u].parent, t)

\* the indices of the callbacks invoked for tokens of stream t
EventsOf(t) == { i \in 1..Len(events) : events[i].stream = t }

\* C6: callbacks are delivered in document order with includes expanded depth
\* first.  Within a stream they follow the order of its tokens; everything
\* delivered for an included stream and the streams included from it lies
\* after what the including stream delivered up to the include_stream call
\* and before the included stream's Eof; what the including stream delivers
\* for later tokens comes only after that Eof; the lexer always reads the
\* innermost stream still open (last in, first out), and the including
\* stream is not read while an included one is open.
C6_DocumentOrderDepthFirst ==
    /\ \A i, j \in 1..Len(events) :
          (i < j /\ events[i].stream = events[j].stream)
             => events[i].from <= events[j].from
    /\ \A t \in 2..Len(streams) :
          LET m == inc[t]
          IN  /\ \A u \in 2..Len(streams) : \A i \in EventsOf(u) :
                    IsWithin(u, t) =>
                       /\ i > m.opened_at
                       /\ m.closed => i <= m.closed_at
              /\ \A i \in EventsOf(m.parent) :
                    IF events[i].from > m.point
                      THEN m.closed /\ i > m.closed_at
                      ELSE \A u \in 2..Len(streams) : \A j \in EventsOf(u) :
                              IsWithin(u, t) => i < j
              /\ ~m.closed =>
                    /\ IsWithin(lexer.in, t)
                    /\ Len(consumed[m.parent]) = m.point
              /\ m.closed => Len(consumed[t]) = Len(streams[t])

\* run() returned after delivering text of a stream, of a stream included
\* from it, of a stream included from that one, and of both including
\* streams after their includes
C6_Witness ==
    /\ pc = "done"
    /\ \E t, u \in 2..Len(streams) :
          /\ inc[t].parent = RootStream
          /\ inc[u].parent = t
          /\ EventsOf(u) # {}
          /\ \E i \in EventsOf(t) : events[i].from > inc[u].point
          /\ \E i \in EventsOf(RootStream) : events[i].from > inc[t].point
          /\ \E i \in EventsOf(RootStream) : events[i].from <= inc[t].point

\* the put-back queue that belongs to stream t: the lexer's while it reads t,
\* the saved one while t waits on the include stack
PutBackOf(t) ==
    IF lexer.in = t THEN lexer.putbackbuf
    ELSE IF \E k \in 1..Len(input_stack) : input_stack[k].input = t
      THEN LET k == CHOOSE k \in 1..Len(input_stack) :
                        input_stack[k].input = t
           IN  input_stack[k].putback
      ELSE <<>>

\* the text of the tokens read from t, then the characters put back, are the
\* characters pulled from t so far
Lossless(t) ==
    consumed[t] \o PutBackOf(t) = SubSeq(streams[t], 1, spos[t])

\* a step in which include_stream is called
IncludeStreamCalled == Len(streams') = Len(streams) + 1

\* C7: include_stream pushes exactly one saved state (the lexer's stream,
\* name, line, column and put-back queue) on the include stack and repoints
\* the lexer at the new stream with line 1, column 0 and an empty put-back
\* queue; in_macro and the earlier stack entries are unchanged, and no
\* put-back character of the including stream is read as part of the
\* included stream: each stream's tokens are made of its own characters.
C7_IncludeStreamEffect ==
    /\ [][IncludeStreamCalled
             => /\ input_stack' =
                      Append(input_stack,
                             [input   |-> lexer.in,
                              name    |-> lexer.in_name,
                              line    |-> lexer.curline,
                              col     |-> lexer.curcol,
                              putback |-> lexer.putbackbuf])
                /\ lexer'.in = Len(streams')
                /\ lexer'.curline = 1
                /\ lexer'.curcol = 0
                /\ lexer'.putbackbuf = <<>>
                /\ in_macro' = in_macro]_vars
    /\ [](\A t \in 1..Len(streams) : Lossless(t))

\* an included stream has been read to its Eof while the including stream's
\* put-back character waited on the include stack
C7_Witness ==
    /\ pc = "dispatch"
    /\ tok = MINWEB_TOKEN_EOF
    /\ Len(input_stack) > 0
    /\ input_stack[Len(input_stack)].putback # <<>>
    /\ lexer.in = Len(streams)
    /\ consumed[lexer.in] # <<>>

\* an Eof is about to be dispatched that ends an included stream
EofOfIncluded ==
    /\ Dispatching(MINWEB_TOKEN_EOF)
    /\ ~in_macro
    /\ Len(input_stack) > 0

\* C8 as stated: when an Eof is read with a non-empty include stack and no
\* macro open, the passthrough callback is invoked once with empty text.
C8_EmptyPassthroughOnPop ==
    [][(EofOfIncluded /\ "passthrough" \in registered)
          => /\ Len(Delivered) = 1
             /\ Delivered[1].cb = "passthrough"
             /\ Delivered[1].arg = <<>>]_vars

\* C8, amended: when an Eof is read with a non-empty include stack and no
\* macro open, the local token is overwritten with Passthrough only so that
\* the loop condition lets the loop go on with the next read; no callback is
\* invoked for it, and the passthrough callback never gets an empty text.
C8_PopContinuesWithoutCallback ==
    /\ [][EofOfIncluded
             => /\ Silent
                /\ tok' = MINWEB_TOKEN_PASSTHROUGH
                /\ pc' = "read"]_vars
    /\ [](\A i \in 1..Len(events) :
             events[i].cb = "passthrough" => events[i].arg # <<>>)

\* an included stream has just been popped with a passthrough callback
\* registered, and what was delivered ends with the included stream's text
C8_Witness ==
    /\ resume.set
    /\ pc = "read"
    /\ tok = MINWEB_TOKEN_PASSTHROUGH
    /\ "passthrough" \in registered
    /\ Len(events) > 0
    /\ events[Len(events)].cb = "passthrough"
    /\ events[Len(events)].arg = <<"a">>
    /\ events[Len(events)].stream # lexer.in

\* stream t holds ordinary characters only
Ordinary(t) ==
    \A k \in 1..Len(streams[t]) : streams[t][k] \notin {"<", ">", "%", "#"}

\* the callbacks invoked for tokens of stream t, in order
Calls(t) == SelectSeq(events, LAMBDA e : e.stream = t)

\* the concatenation of the texts of a sequence of passthrough callbacks
RECURSIVE Texts(_)
Texts(es) == IF es = <<>> THEN <<>> ELSE Head(es).arg \o Texts(Tail(es))

\* stream t has been read to its Eof and left
Finished(t) == IF t = RootStream THEN pc = "done" ELSE inc[t].closed

\* C9: on a stream of ordinary characters only, the reads return one
\* Passthrough token per character, with that character as its text, and Eof
\* after the last one; the passthrough texts the processor delivers for the
\* stream, concatenated, are the stream.
C9_OrdinaryCharacters ==
    \A t \in 1..Len(streams) :
       Ordinary(t) =>
          /\ (pc = "dispatch" /\ lasttok.stream = t) =>
                IF lasttok.from <= Len(streams[t])
                  THEN /\ tok = MINWEB_TOKEN_PASSTHROUGH
                       /\ get_token_string(lexer) = <<streams[t][lasttok.from]>>
                       /\ lasttok.to = lasttok.from
                       /\ Len(consumed[t]) = lasttok.from
                  ELSE /\ tok = MINWEB_TOKEN_EOF
                       /\ get_token_string(lexer) = <<>>
                       /\ consumed[t] = streams[t]
          /\ consumed[t] = SubSeq(streams[t], 1, Len(consumed[t]))
          /\ "passthrough" \in registered =>
                /\ \A k \in 1..Len(Calls(t)) :
                      /\ Calls(t)[k].cb = "passthrough"
                      /\ Calls(t)[k].arg = <<streams[t][k]>>
                /\ Finished(t) => Texts(Calls(t)) = streams[t]

\* run() returned from a root of two ordinary characters, a newline among
\* them, after delivering two passthrough texts
C9_Witness ==
    /\ pc = "done"
    /\ Ordinary(RootStream)
    /\ Len(streams[RootStream]) = 2
    /\ NL \in {streams[RootStream][1], streams[RootStream][2]}
    /\ Len(events) = 2
    /\ Texts(events) = streams[RootStream]

\* the token just read spans st[f..e], a complete `<<name>>`
IsRefAt(st, f, e) ==
    /\ e >= f + 4
    /\ e <= Len(st)
    /\ st[f] = "<" /\ st[f + 1] = "<"
    /\ st[e - 1] = ">" /\ st[e] = ">"
    /\ \A k \in (f + 2)..(e - 2) : st[k] \notin {">", NL}

\* C10: after a complete `<<name>>` the lexer peeks one character: "=" gives
\* MacroStart with text `<<name>>=`; end of input gives MacroRef; any other
\* character c gives MacroRef with text `<<name>>` and c is put back, so that
\* c is the first character of the next token and is read exactly once.
C10_PeekAfterMacroName ==
    /\ pc = "dispatch" =>
          LET st == streams[lasttok.stream]
              f  == lasttok.from
          IN  \A e \in 1..Len(st) :
                 IsRefAt(st, f, e) =>
                    IF e = Len(st)
                      THEN /\ tok = MINWEB_TOKEN_MACRO_REF
                           /\ get_token_string(lexer) = SubSeq(st, f, e)
                           /\ lexer.putbackbuf = <<>>
                    ELSE IF st[e + 1] = "="
                      THEN /\ tok = MINWEB_TOKEN_MACRO_START
                           /\ get_token_string(lexer) = SubSeq(st, f, e + 1)
                           /\ lexer.putbackbuf = <<>>
                      ELSE /\ tok = MINWEB_TOKEN_MACRO_REF
                           /\ get_token_string(lexer) = SubSeq(st, f, e)
                           /\ lexer.putbackbuf = <<st[e + 1]>>
                           /\ spos[lasttok.stream] = e + 1
                           /\ Head(NextToken(lexer, spos).text) = st[e + 1]
    /\ (pc = "dispatch" /\ tok \in {MINWEB_TOKEN_MACRO_REF,
                                    MINWEB_TOKEN_MACRO_START}) =>
          IsRefAt(streams[lasttok.stream], lasttok.from,
                  IF tok = MINWEB_TOKEN_MACRO_REF THEN lasttok.to
                                                  ELSE lasttok.to - 1)
    /\ Lossless(lexer.in)

\* a MacroRef was read, the "<" after it is in the put-back queue and starts
\* the next token, another MacroRef
C10_Witness ==
    /\ pc = "dispatch"
    /\ tok = MINWEB_TOKEN_MACRO_REF
    /\ get_token_string(lexer) = SEG_ref
    /\ lexer.putbackbuf = <<"<">>
    /\ NextToken(lexer, spos).tok = MINWEB_TOKEN_MACRO_REF
    /\ NextToken(lexer, spos).text = SEG_ref

(***************************************************************************)
(* The lexer on its own, as test_lexer.cpp drives it: a lexer is built on  *)
(* a stream and read() is called until it returns Eof.                     *)
(***************************************************************************)
\* the characters of the macro lexemes, and those of the bracketed lexemes
MacroChars   == {"<", ">", "=", "@", NL, "a"}
BracketChars == {"#", "%", "[", "]", "=", "a"}

OneChar(cs) == { <<c>> : c \in cs }

\* the streams given to the lexer: every text of at most MaxLexLen characters
\* over either alphabet, and the documents of the processor
LexDocs ==
    Docs(OneChar(MacroChars), MaxLexLen)
       \cup Docs(OneChar(BracketChars), MaxLexLen) \cup RootDocs

\* `stringstream in(d); lexer scanner(&in, "r");`
LexerInit ==
    /\ \E d \in LexDocs : streams = <<d>>
    /\ spos = <<0>>
    /\ lexer = lexer_new(RootStream, RootName)
    /\ tok = NoToken
    /\ in_macro = FALSE
    /\ input_stack = <<>>
    /\ registered = {}
    /\ includes = <<>>
    /\ pc = "read"
    /\ cb = NoCb
    /\ err = NoErr
    /\ events = <<>>
    /\ consumed = << <<>> >>
    /\ captured = <<>>
    /\ resume = NoResume
    /\ lasttok = NoTok
    /\ inc = << NoInc >>
    /\ probe = NoProbe

\* the test looks at the token and goes on to the next read, up to Eof
TestExpect ==
    /\ pc = "dispatch"
    /\ pc' = loop_condition(tok)
    /\ UNCHANGED <<streams, spos, lexer, tok, in_macro, input_stack,
                   registered, includes, cb, err, events, consumed, captured,
                   resume, lasttok, inc, probe>>

LexerNext ==
    \/ Read
    \/ TestExpect

LexerSpec == LexerInit /\ [][LexerNext]_vars

\* the texts of the tokens read so far, concatenated
TokenTexts == consumed[RootStream]

\* C38: tokenization is lossless.  For any input stream the concatenation
\* of the texts of all tokens returned by successive read() calls up to Eof
\* equals the input exactly: no character is dropped, duplicated or
\* reordered, including look-ahead characters that were put back and
\* characters consumed by failed attempts.
C38_TokenizationLossless ==
    /\ TokenTexts \o lexer.putbackbuf
          = SubSeq(streams[RootStream], 1, spos[RootStream])
    /\ pc = "done" => TokenTexts = streams[RootStream]

\* `<<a>><` has been read up to Eof: the `<` peeked after the reference was
\* put back and read again, and the attempt it started failed
C38_Witness ==
    /\ pc = "done"
    /\ streams[RootStream] = SEG_ref \o <<"<">>
    /\ TokenTexts = streams[RootStream]

\* a look-ahead character is in the put-back queue
C38_WitnessPutBack ==
    /\ pc = "dispatch"
    /\ tok = MINWEB_TOKEN_MACRO_REF
    /\ lexer.putbackbuf # <<>>

\* the token just read is of kind t
JustRead(t) == pc = "dispatch" /\ tok = t

\* C39: for every token the lexer classifies as MacroStart, MacroRef or
\* TextSubstitution the corresponding decoder succeeds, and for every
\* SpecialDirective token decode_special_directive never reports
\* "Malformed"; the only decode failure of a token the lexer returns is an
\* unsupported directive name.
C39_LexerTokensDecode ==
    LET t == get_token_string(lexer)
    IN  /\ JustRead(MINWEB_TOKEN_MACRO_START)
              => macro_type_from_macro_begin(t).ok
        /\ JustRead(MINWEB_TOKEN_MACRO_REF) => decode_macro_ref(t).ok
        /\ JustRead(MINWEB_TOKEN_TEXT_SUBSTITUTION)
              => substitution_type_from_text_substitution(t).ok
        /\ JustRead(MINWEB_TOKEN_SPECIAL_DIRECTIVE)
              => \/ decode_special_directive(t).ok
                 \/ decode_special_directive(t).msg
                       = "Unsupported directive type"

\* the shortest text substitution, `%[a]%`, has been read and decodes
C39_Witness ==
    /\ JustRead(MINWEB_TOKEN_TEXT_SUBSTITUTION)
    /\ get_token_string(lexer) = <<"%", "[", "a", "]", "%">>
    /\ substitution_type_from_text_substitution(get_token_string(lexer)).ok

\* a directive with an unsupported name has been read: its decoder fails,
\* and not with "Malformed"
C39_WitnessUnsupported ==
    /\ JustRead(MINWEB_TOKEN_SPECIAL_DIRECTIVE)
    /\ ~decode_special_directive(get_token_string(lexer)).ok

\* a macro begin has been read and decodes
C39_WitnessMacroStart ==
    /\ JustRead(MINWEB_TOKEN_MACRO_START)
    /\ macro_type_from_macro_begin(get_token_string(lexer)).ok

\* the characters that start a multi-character attempt
Special == {"<", ">", "%", "#"}

\* the token just read is what a failed attempt returned
FailedAttempt ==
    /\ pc = "dispatch"
    /\ tok = MINWEB_TOKEN_PASSTHROUGH
    /\ Head(get_token_string(lexer)) \in Special

\* C11: failure policy.  A failed attempt returns one Passthrough token made
\* of every character consumed during the attempt, the mismatching one
\* included, an end of input excluded; none of them is put back or scanned
\* again: the next token starts at the character after it.
C11_FailedAttemptKeepsCharacters ==
    FailedAttempt =>
       LET st == streams[lasttok.stream]
           f  == lasttok.from
           t  == lasttok.to
       IN  /\ get_token_string(lexer) = SubSeq(st, f, t)
           /\ lexer.putbackbuf = <<>>
           /\ spos[lasttok.stream] = t
           /\ t < Len(st) =>
                 /\ t > f
                 /\ Head(NextToken(lexer, spos).text) = st[t + 1]
           /\ t = Len(st) => NextToken(lexer, spos).tok = MINWEB_TOKEN_EOF
           /\ (f = 1 /\ st \in { <<"<">>, <<"<", "<">>, <<"<", "<", "a">>,
                                 <<"<", "<", "a", ">">>, <<"#", "[", "=">>,
                                 <<"#", "[", "a", "=">>,
                                 <<"#", "[", "a", "=", "a">> })
                 => t = Len(st)

\* an attempt failed on the ">" that came where a name had to start; the
\* token holds it, and the "<" after it starts the next token
C11_Witness ==
    /\ FailedAttempt
    /\ get_token_string(lexer) = <<"<", "<", ">">>
    /\ lasttok.to < Len(streams[lasttok.stream])
    /\ streams[lasttok.stream][lasttok.to + 1] = "<"
    /\ lexer.putbackbuf = <<>>

\* the characters of a text
Range(t) == { t[k] : k \in 1..Len(t) }

\* a MacroRef or a MacroStart has just been read
MacroNameRead ==
    /\ pc = "dispatch"
    /\ tok \in {MINWEB_TOKEN_MACRO_REF, MINWEB_TOKEN_MACRO_START}

\* C12: a name inside `<<...>>` never contains a newline: no token returned
\* as MacroRef or MacroStart has a newline in its text; a newline met after
\* the opening `<<` and before the closing `>` abandons the attempt.
C12_NoNewlineInMacroName ==
    MacroNameRead => NL \notin Range(get_token_string(lexer))

\* what does hold: a newline is refused everywhere in a name but in its
\* first character, which is only tested against end of input and ">"
C12_NewlineOnlyFirstInName ==
    MacroNameRead =>
       \A k \in 1..Len(get_token_string(lexer)) :
          get_token_string(lexer)[k] = NL => k = 3

(***************************************************************************)
(* Functions of the lexer applied on their own to inputs drawn from        *)
(* bounded sets.  `probe` names the function and holds its result.         *)
(***************************************************************************)
\* the processor is not involved
Idle ==
    /\ tok = NoToken
    /\ in_macro = FALSE
    /\ input_stack = <<>>
    /\ registered = {}
    /\ includes = <<>>
    /\ pc = "read"
    /\ cb = NoCb
    /\ err = NoErr
    /\ events = <<>>
    /\ captured = <<>>
    /\ resume = NoResume
    /\ lasttok = NoTok

\* a lexer in any scanning state set_input_state can produce, on a stream of
\* at most MaxPull characters: a put-back queue of up to two characters, a
\* line and a column
ReadCharInit ==
    /\ \E d \in Docs(OneChar({"a", NL}), MaxPull) : streams = <<d>>
    /\ spos = <<0>>
    /\ \E q \in Docs(OneChar({"b", NL}), 2), l \in {1, 2}, c \in {0, 3} :
          lexer = set_input_state(lexer_new(RootStream, RootName),
                                  RootStream, RootName, l, c, q)
    /\ consumed = << <<>> >>
    /\ inc = << NoInc >>
    /\ probe = [op |-> "read_char", out |-> NoToken]
    /\ Idle

\* `ch = read_char();` called until it has returned EOF
ApplyReadChar ==
    /\ probe.op = "read_char"
    /\ probe.out # EOF
    /\ \E r \in { read_char(Scan(lexer, spos)) } :
          /\ lexer' = LexOf(r.s)
          /\ spos' = r.s.spos
          /\ probe' = [probe EXCEPT !.out = r.ch]
    /\ UNCHANGED <<streams, tok, in_macro, input_stack, registered, includes,
                   pc, cb, err, events, consumed, captured, resume, lasttok,
                   inc>>


\* C13: line and column accounting of read_char.  A character replayed from
\* the put-back queue is the oldest one in it and changes neither line nor
\* column, and nothing is pulled from the stream while the queue holds a
\* character; a newline pulled from the stream adds one to the line and
\* resets the column to 0; any other character pulled adds one to the column.
C13_LineColumnAccounting ==
    [][(probe.op = "read_char" /\ probe' # probe)
          => LET st == streams[lexer.in]
                 n  == spos[lexer.in]
             IN  IF lexer.putbackbuf # <<>>
                   THEN /\ probe'.out = Head(lexer.putbackbuf)
                        /\ lexer'.putbackbuf = Tail(lexer.putbackbuf)
                        /\ lexer'.curline = lexer.curline
                        /\ lexer'.curcol = lexer.curcol
                        /\ spos' = spos
                   ELSE IF n < Len(st)
                     THEN /\ probe'.out = st[n + 1]
                          /\ spos'[lexer.in] = n + 1
                          /\ lexer'.putbackbuf = <<>>
                          /\ IF st[n + 1] = NL
                               THEN /\ lexer'.curline = lexer.curline + 1
                                    /\ lexer'.curcol = 0
                               ELSE /\ lexer'.curline = lexer.curline
                                    /\ lexer'.curcol = lexer.curcol + 1
                     ELSE /\ probe'.out = EOF
                          /\ spos' = spos
                          /\ lexer'.curline = lexer.curline]_vars

\* the put-back queue is empty and a newline has been pulled from the
\* stream, taking the lexer from line 2 to line 3, column 0
C13_Witness ==
    /\ probe.op = "read_char"
    /\ probe.out = NL
    /\ spos = <<1>>
    /\ lexer.putbackbuf = <<>>
    /\ lexer.curline = 3
    /\ lexer.curcol = 0

\* the line of the k-th character of text st, counted as read_char counts: a
\* newline belongs to the line it opens
LineOf(st, k) == 1 + Cardinality({ j \in 1..k : st[j] = NL })

\* the column of the k-th character of st: a newline has column 0
ColOf(st, k) ==
    LET nls == { j \in 1..k : st[j] = NL }
    IN  IF nls = {} THEN k
        ELSE k - (CHOOSE j \in nls : \A i \in nls : i <= j)

\* a token other than Eof has just been read
TokenRead == pc = "dispatch" /\ tok # MINWEB_TOKEN_EOF

\* accept() leaves in end_line / end_col the position of the last character
\* of the token
EndFieldsAtLastAccept ==
    /\ lexer.end_line = LineOf(streams[lasttok.stream], lasttok.to)
    /\ lexer.end_col = ColOf(streams[lasttok.stream], lasttok.to)

\* C14: the end line and end column that read_linecol reports for a token
\* are the line and column of the last character accepted into it, for
\* every token, a Passthrough of a failed attempt that spans a newline
\* included.
C14_EndPositionIsLastAccept ==
    TokenRead =>
       /\ EndFieldsAtLastAccept
       /\ read_linecol(lexer).el = lexer.end_line
       /\ read_linecol(lexer).ec = lexer.end_col

\* what does hold: accept() records the position of the last character, and
\* read_linecol reports it for the tokens that have no newline after their
\* first character
C14_EndPositionOnOneLine ==
    TokenRead =>
       /\ EndFieldsAtLastAccept
       /\ NL \notin Range(Tail(get_token_string(lexer))) =>
             /\ read_linecol(lexer).el = lexer.end_line
             /\ read_linecol(lexer).ec = lexer.end_col

\* run() has been left by a processor_error
ProcessorErrorRaised == pc = "error" /\ err.type = "processor_error"

\* the error text is "Error in <name> at <line>:<col>: <message>" with the
\* stream name and the start position that read_linecol gives for the token
\* just read
LocatedAtToken ==
    /\ err.located
    /\ err.name = lexer.in_name
    /\ err.line = read_linecol(lexer).sl
    /\ err.col = read_linecol(lexer).sc

\* the messages of the nesting and balance errors
BalanceMessages ==
    { "Expected a macro end.", "Macros cannot be nested.",
      "Macro end with no macro begin.",
      "Macro references can only occur in macro bodies." }

\* C16: every processor_error raised by run() carries the stream name and
\* the start line and column of the offending token, formatted as
\* "Error in <name> at <line>:<col>: <message>", directive decode failures
\* re-raised as processor errors included.
C16_ErrorsCarryPosition ==
    ProcessorErrorRaised => LocatedAtToken

\* what does hold: the four nesting and balance errors are formatted so; a
\* directive decode failure carries the decoder's message and the token text
\* and nothing else
C16_BalanceErrorsCarryPosition ==
    ProcessorErrorRaised =>
       IF err.msg \in BalanceMessages
         THEN LocatedAtToken
         ELSE /\ ~err.located
              /\ tok = MINWEB_TOKEN_SPECIAL_DIRECTIVE
              /\ err.msg \in {"Malformed special directive",
                              "Unsupported directive type"}
                    => err.text = get_token_string(lexer)

\* a nesting or balance error has been raised
BalanceErrorRaised == ProcessorErrorRaised /\ err.msg \in BalanceMessages

\* the error names the stream the token was read from and the line and
\* column of the token's first character
PointsAtTokenStart ==
    /\ lexer.in = lasttok.stream
    /\ err.name = lexer.in_name
    /\ err.line = LineOf(streams[lasttok.stream], lasttok.from)
    /\ err.col = ColOf(streams[lasttok.stream], lasttok.from)

\* the error names the stream that ended and the position at which its end
\* was met, one column after its last character
PointsAtEndOfInput ==
    LET st == streams[lasttok.stream]
    IN  /\ lexer.in = lasttok.stream
        /\ err.name = lexer.in_name
        /\ err.line = LineOf(st, Len(st))
        /\ err.col = ColOf(st, Len(st)) + 1

\* C17: the name, line and column of a nesting or balance error are the
\* stream name and start position of the token that triggered it; for
\* "Expected a macro end." they are the position of the Eof token in the
\* stream whose end was reached, not the start of an earlier token.
C17_ErrorPointsAtTriggeringToken ==
    BalanceErrorRaised =>
       IF tok = MINWEB_TOKEN_EOF THEN PointsAtEndOfInput
                                 ELSE PointsAtTokenStart

\* what does hold: errors triggered by MacroStart, MacroEnd and MacroRef
\* point at the token; "Expected a macro end." names the stream that ended
\* but carries the start position left by the last token that was read
\* before, in that stream or in another one
C17_ErrorPointsAtLastStartedToken ==
    BalanceErrorRaised =>
       IF tok = MINWEB_TOKEN_EOF
         THEN /\ err.name = lexer.in_name
              /\ err.line = lexer.start_line
              /\ err.col = lexer.start_col
              /\ streams[lasttok.stream] # <<>> => ~PointsAtEndOfInput
         ELSE PointsAtTokenStart

\* the text of a SpecialDirective token between `#[` and its first '='
DirectiveName(t) ==
    LET eq == CHOOSE i \in 1..Len(t) : t[i] = "=" /\ \A j \in 1..(i-1) : t[j] # "="
    IN  SubSeq(t, 3, eq - 1)

\* the text of a SpecialDirective token after its first '=', without the
\* closing ']'
DirectiveValue(t) ==
    LET eq == CHOOSE i \in 1..Len(t) : t[i] = "=" /\ \A j \in 1..(i-1) : t[j] # "="
    IN  SubSeq(t, eq + 1, Len(t) - 1)

\* the step made for a SpecialDirective token named neither include nor language
UnsupportedDirective ==
    /\ Dispatching(MINWEB_TOKEN_SPECIAL_DIRECTIVE)
    /\ DirectiveName(get_token_string(lexer)) \notin {STR_include, STR_language}

\* the step made for a SpecialDirective token named include or language
\* while a special-directive callback is registered
SupportedDirective ==
    /\ Dispatching(MINWEB_TOKEN_SPECIAL_DIRECTIVE)
    /\ DirectiveName(get_token_string(lexer)) \in {STR_include, STR_language}
    /\ "special_directive" \in registered

\* C18: a SpecialDirective token whose name is neither include nor language
\* makes run() fail with a processor_error carrying the decoder's message
\* about the token, and no callback is invoked, with or without a registered
\* special-directive callback; for include and language the callback gets
\* (Include, value) or (Language, value), value being the text after the
\* first '=' up to the closing ']'.
C18_DirectiveDecoding ==
    [][/\ UnsupportedDirective =>
             /\ pc' = "error"
             /\ err'.raised
             /\ err'.type = "processor_error"
             /\ err'.msg = "Unsupported directive type"
             /\ err'.text = get_token_string(lexer)
             /\ Silent
       /\ SupportedDirective =>
             /\ Delivered # <<>>
             /\ Delivered[1].cb = "special_directive"
             /\ Delivered[1].arg =
                  [type  |-> IF DirectiveName(get_token_string(lexer))
                                  = STR_include
                               THEN MINWEB_DIRECTIVE_TYPE_INCLUDE
                               ELSE MINWEB_DIRECTIVE_TYPE_LANGUAGE,
                   value |-> DirectiveValue(get_token_string(lexer))]
             /\ \A k \in 2..Len(Delivered) :
                   Delivered[k].cb # "special_directive"]_vars

\* run() has failed on an unsupported directive while a special-directive
\* callback was registered and after that callback was handed a directive
\* whose value holds a '='
C18_Witness ==
    /\ pc = "error"
    /\ err.msg = "Unsupported directive type"
    /\ "special_directive" \in registered
    /\ \E k \in 1..Len(events) :
          /\ events[k].cb = "special_directive"
          /\ events[k].arg.type = MINWEB_DIRECTIVE_TYPE_LANGUAGE

\* a directive whose value holds a '=' has been handed to the callback
C18_WitnessValueWithEquals ==
    \E k \in 1..Len(events) :
       /\ events[k].cb = "special_directive"
       /\ events[k].arg = [type  |-> MINWEB_DIRECTIVE_TYPE_LANGUAGE,
                           value |-> <<"c", "=", "d">>]

\* the streams of a test that saves the scanning state, reads another stream
\* and restores: TEST(input_state_save_restore)
SaveRestoreFirst  == { <<>>, <<"a", NL, "b">>, SEG_ref, SEG_ref \o <<"b">>,
                       SEG_ref \o <<NL, "a">> }
SaveRestoreSecond == { <<>>, <<"a">>, <<NL, "<">> }
SecondStream == 2
SecondName   == <<"s">>

\* `stringstream in(...); stringstream in2(...); lexer scanner(&in, "r");`
\* list is what the test's `state_putback` holds when it is passed in
InputStateInit ==
    /\ \E d \in SaveRestoreFirst, e \in SaveRestoreSecond : streams = <<d, e>>
    /\ spos = <<0, 0>>
    /\ lexer = lexer_new(RootStream, RootName)
    /\ consumed = << <<>>, <<>> >>
    /\ inc = << NoInc, NoInc >>
    /\ \E list \in { <<>>, <<"b">> } :
          probe = [op |-> "input_state", phase |-> "start", list |-> list]
    /\ Idle

\* `scanner.read()` before the state is saved and while the second stream
\* is read
InputStateRead ==
    /\ probe.op = "input_state"
    /\ probe.phase \in {"start", "switched"}
    /\ Read

InputStateExpect ==
    /\ probe.op = "input_state"
    /\ TestExpect

\* `scanner.get_input_state(&state_in, state_name, state_line, state_col,
\*                          state_putback);`
ApplyGetInputState ==
    /\ probe.op = "input_state"
    /\ probe.phase = "start"
    /\ pc = "read"
    /\ probe' = [op     |-> "input_state",
                 phase  |-> "saved",
                 list   |-> probe.list,
                 state  |-> get_input_state(lexer, probe.list),
                 before |-> Observe(lexer, spos),
                 fields |-> lexer]
    /\ UNCHANGED <<streams, spos, lexer, tok, in_macro, input_stack,
                   registered, includes, pc, cb, err, events, consumed,
                   captured, resume, lasttok, inc>>

\* `scanner.set_input_state(&in2, "s", line, col, putback);`
ApplySetInputState ==
    /\ probe.op = "input_state"
    /\ probe.phase = "saved"
    /\ \E l \in {1, 2}, c \in {0, 4}, q \in { <<>>, <<"c">> } :
          /\ lexer' = set_input_state(lexer, SecondStream, SecondName, l, c, q)
          /\ probe' = [probe EXCEPT !.phase = "switched"]
                         @@ [args |-> [input |-> SecondStream,
                                       name |-> SecondName, line |-> l,
                                       col |-> c, putback |-> q]]
    /\ UNCHANGED <<streams, spos, tok, in_macro, input_stack, registered,
                   includes, pc, cb, err, events, consumed, captured, resume,
                   lasttok, inc>>

\* `scanner.set_input_state(state_in, state_name, state_line, state_col,
\*                          state_putback);`
ApplyRestoreInputState ==
    /\ probe.op = "input_state"
    /\ probe.phase = "switched"
    /\ pc \in {"read", "done"}
    /\ lexer' = set_input_state(lexer, probe.state.input, probe.state.name,
                                probe.state.line, probe.state.col,
                                probe.state.putback)
    /\ probe' = [probe EXCEPT !.phase = "restored"]
    /\ pc' = "read"
    /\ UNCHANGED <<streams, spos, tok, in_macro, input_stack, registered,
                   includes, cb, err, events, consumed, captured, resume,
                   lasttok, inc>>

\* the five values get_input_state has to report for lexer state f
ScanningState(f) ==
    [input |-> f.in, name |-> f.in_name, line |-> f.curline,
     col |-> f.curcol, putback |-> f.putbackbuf]

\* get_input_state reported the scanning state and left the lexer unchanged
ReportsState ==
    /\ probe.phase \in {"saved", "switched", "restored"} =>
          probe.state = ScanningState(probe.fields)
    /\ probe.phase = "saved" => lexer = probe.fields

\* set_input_state replaced all five values by its arguments
ReplacesState ==
    (probe.phase = "saved" /\ probe'.phase = "switched") =>
       ScanningState(lexer') = probe'.args

\* set_input_state on the saved values gave back the scanning state that was
\* saved: the same five values, and the same token is read next
RestoresState ==
    probe.phase = "restored" =>
       /\ Restored(probe.before)
       /\ NextToken(lexer, spos).tok = probe.before.next.tok
       /\ NextToken(lexer, spos).text = probe.before.next.text

C15_SaveAndRestoreIntoEmptyList ==
    /\ []((probe.op = "input_state" /\ probe.list = <<>>)
             => (ReportsState /\ RestoresState))
    /\ [][probe.op = "input_state" => ReplacesState]_vars

\* get_input_state appends to the list it is given
C15_AppendsToList ==
    (probe.op = "input_state" /\ probe.phase # "start") =>
       probe.state.putback = probe.list \o probe.fields.putbackbuf

\* a state saved with a put-back character was restored after the second
\* stream, switched in with a put-back character of its own, was read
C15_RestoredAfterReads ==
    /\ probe.op = "input_state"
    /\ probe.phase = "restored"
    /\ probe.list = <<>>
    /\ probe.before.putbackbuf = <<"b">>
    /\ probe.args.putback = <<"c">>
    /\ Len(consumed[SecondStream]) > 1
    /\ lexer.putbackbuf = <<"b">>

\* the lexer of a test that calls a static decoder: it reads nothing
NoInput ==
    /\ streams = << <<>> >>
    /\ spos = <<0>>
    /\ lexer = lexer_new(RootStream, RootName)
    /\ consumed = << <<>> >>
    /\ inc = << NoInc >>

\* the pieces macro names are made of: the root name, the separator, the two
\* type names, the first letter of one of them, and a letter
InnerPieces == { <<"*">>, <<":">>, STR_FILE, STR_SECTION, <<"F">>, <<"x">> }

\* what may stand before and after the inner string
Openers == { <<"<", "<">>, <<"<">>, <<"x", "<">>, <<>> }
Closers == { <<">", ">", "=">>, <<">", ">">>, <<">", "=">>, <<">", ">", "x">>,
             <<"=", ">", ">">> }

\* the texts handed to macro_type_from_macro_begin: an inner string of at
\* most MaxInnerPieces pieces between an opener and a closer, and every text
\* of at most MaxLexLen delimiter characters
MacroBeginTexts ==
    { o \o i \o c : o \in Openers, i \in Docs(InnerPieces, MaxInnerPieces),
                    c \in Closers }
       \cup Docs(OneChar({"<", ">", "="}), MaxLexLen)

\* `lexer::macro_type_from_macro_begin("...")` as the tests call it
MacroTypeInit ==
    /\ NoInput
    /\ Idle
    /\ \E t \in MacroBeginTexts :
          probe = [op |-> "macro_type", phase |-> "start", text |-> t]

ApplyMacroTypeFromMacroBegin ==
    /\ probe.op = "macro_type"
    /\ probe.phase = "start"
    /\ probe' = [op |-> "macro_type", phase |-> "done", text |-> probe.text,
                 out |-> macro_type_from_macro_begin(probe.text)]
    /\ UNCHANGED <<streams, spos, lexer, tok, in_macro, input_stack,
                   registered, includes, pc, cb, err, events, consumed,
                   captured, resume, lasttok, inc>>

\* macro_type_from_macro_begin has been applied
MacroTypeDecoded == probe.op = "macro_type" /\ probe.phase = "done"

\* t is `<<inner>>=`
IsMacroBegin(t) ==
    /\ Len(t) >= 5
    /\ SubSeq(t, 1, 2) = <<"<", "<">>
    /\ SubSeq(t, Len(t) - 2, Len(t)) = <<">", ">", "=">>

\* the result the claim gives for inner string i
MacroTypeOf(i) ==
    IF i = <<"*">> THEN {[type |-> MINWEB_MACRO_TYPE_ROOT, name |-> <<"*">>]}
    ELSE IF ":" \notin Range(i)
      THEN {[type |-> MINWEB_MACRO_TYPE_DEFAULT, name |-> i]}
    ELSE { IF SubSeq(i, 1, p - 1) = STR_FILE
             THEN [type |-> MINWEB_MACRO_TYPE_FILE,
                   name |-> SubSeq(i, p + 1, Len(i))]
           ELSE IF SubSeq(i, 1, p - 1) = STR_SECTION
             THEN [type |-> MINWEB_MACRO_TYPE_SECTION,
                   name |-> SubSeq(i, p + 1, Len(i))]
           ELSE [type |-> MINWEB_MACRO_TYPE_DEFAULT, name |-> i] :
           p \in { q \in 1..Len(i) :
                     i[q] = ":" /\ ":" \notin Range(SubSeq(i, 1, q - 1)) } }

\* C19: macro_type_from_macro_begin on `<<inner>>=`: "*" gives (Root, "*");
\* an inner string without ':' gives (Default, inner); otherwise the inner
\* string is split at its first ':', the prefix FILE gives (File, suffix),
\* SECTION gives (Section, suffix), any other prefix gives (Default, the whole
\* inner string).  A text shorter than five characters or not delimited by
\* `<<` and `>>=` fails with a lexer_error.
C19_MacroTypeFromMacroBegin ==
    MacroTypeDecoded =>
       LET t == probe.text
       IN  IF IsMacroBegin(t)
             THEN /\ probe.out.ok
                  /\ [type |-> probe.out.type, name |-> probe.out.name]
                        \in MacroTypeOf(SubSeq(t, 3, Len(t) - 3))
             ELSE /\ ~probe.out.ok
                  /\ probe.out.msg = "Malformed macro statement"
                  /\ probe.out.text = t

\* a macro begin with a prefix that is neither FILE nor SECTION has been
\* decoded as a default macro named by the whole inner string
C19_Witness ==
    /\ MacroTypeDecoded
    /\ probe.text = <<"<", "<", "F", ":", "x", ">", ">", "=">>
    /\ probe.out = [ok |-> TRUE, type |-> MINWEB_MACRO_TYPE_DEFAULT,
                    name |-> <<"F", ":", "x">>]

\* the streams include_stream was called on by the include handler while it
\* handled the directive of callback k
IncludedBy(k) ==
    { t \in 2..Len(streams) : inc[t].opened_at = k }

\* callback k is the include handler receiving an Include directive
IncludeDirective(k) ==
    /\ events[k].cb = "special_directive"
    /\ events[k].arg.type = MINWEB_DIRECTIVE_TYPE_INCLUDE

\* C29: include resolution.  On an Include directive the handler tries the
\* search paths in list order and the first path where the file exists wins:
\* at most one stream is included per directive even if several search paths
\* hold the file; if none holds it nothing is included and no error is raised.
C29_FirstPathWins ==
    /\ \A k \in 1..Len(events) :
          IncludeDirective(k) => Cardinality(IncludedBy(k)) <= 1
    /\ (pc = "error" /\ err.msg = "error: could not open")
          => \E t \in 1..Len(includes) :
                err.text = pathname(includes[t], events[Len(events)].arg.value)

\* what does hold: the loop goes on after a path where the file was found,
\* so a directive includes one stream for every search path that holds the
\* file, and the stream of the last such path is the one read first
C29_EveryPathIncluded ==
    \A k \in 1..Len(events) :
       IncludeDirective(k) =>
          /\ Cardinality(IncludedBy(k)) <= Len(includes)
          /\ \A t \in IncludedBy(k), u \in IncludedBy(k) :
                (t < u /\ inc[t].closed)
                   => inc[u].closed /\ inc[u].closed_at <= inc[t].closed_at

\* one Include directive has included two streams
C29_TwoStreamsForOneDirective ==
    \E k \in 1..Len(events) :
       IncludeDirective(k) /\ Cardinality(IncludedBy(k)) = 2

\* callback k is the include handler, and it has not returned: it is in its
\* loop over the search paths, or it has thrown out of it
HandlerNotReturned(k) ==
    /\ k = Len(events)
    /\ \/ pc = "cb"
       \/ pc = "error" /\ err.msg = "error: could not open"

\* C30: handler chaining.  The include handler invokes the previous
\* special-directive handler exactly once for every directive it receives,
\* Include or Language, after its own include handling has completed and
\* with the same decoded directive; when the previous handler is empty
\* nothing is invoked.
C30_HandlerChaining ==
    /\ \A k \in 1..Len(events) :
          (events[k].cb = "special_directive" /\ ~HandlerNotReturned(k)) =>
             IF "prev" \in registered
               THEN /\ k < Len(events)
                    /\ events[k + 1].cb = "prev"
                    /\ events[k + 1].arg = events[k].arg
               ELSE k = Len(events) \/ events[k + 1].cb # "prev"
    /\ \A k \in 1..Len(events) :
          events[k].cb = "prev" =>
             /\ "prev" \in registered
             /\ k > 1
             /\ events[k - 1].cb = "special_directive"
    /\ \A t \in 2..Len(streams) :
          inc[t].opened_at > 0 => events[inc[t].opened_at].cb # "prev"

\* the include handler has included a stream for an Include directive and
\* then invoked the previous handler with that directive; before that it
\* passed a Language directive on
C30_Witness ==
    \E k \in 2..Len(events), j \in 1..Len(events) :
       /\ IncludeDirective(k)
       /\ IncludedBy(k) # {}
       /\ k < Len(events)
       /\ events[k + 1].cb = "prev"
       /\ events[k + 1].arg = events[k].arg
       /\ j < k
       /\ events[j].cb = "prev"
       /\ events[j].arg.type = MINWEB_DIRECTIVE_TYPE_LANGUAGE

\* no previous handler: directives were received and nothing else invoked
C30_WitnessEmptyPrev ==
    /\ "prev" \notin registered
    /\ pc = "done"
    /\ \E k \in 1..Len(events) : IncludeDirective(k) /\ IncludedBy(k) # {}

\* the tokens successive read() calls return from scanning state s up to Eof
RECURSIVE TokensFrom(_)
TokensFrom(s) ==
    Bind(read(s), LAMBDA r :
        IF r.tok = MINWEB_TOKEN_EOF
          THEN <<>>
          ELSE << [tok |-> r.tok, text |-> get_token_string(r.s)] >>
                   \o TokensFrom(r.s))

\* the tokens of stream k when it is read on its own from its first character
TokensOf(k) ==
    TokensFrom(Scan(lexer_new(k, <<>>), [i \in 1..Len(streams) |-> 0]))

\* the macro begin and end tokens of stream k, in order
BeginsAndEnds(k) ==
    LET ts == TokensOf(k)
        RECURSIVE pick(_)
        pick(i) == IF i > Len(ts) THEN <<>>
                   ELSE IF ts[i].tok \in { MINWEB_TOKEN_MACRO_START,
                                           MINWEB_TOKEN_MACRO_END }
                          THEN <<ts[i].tok>> \o pick(i + 1)
                          ELSE pick(i + 1)
    IN  pick(1)

\* stream k ends a macro it did not begin
EndsUnbegun(k) ==
    LET be == BeginsAndEnds(k)
    IN  \E i \in 1..Len(be) :
           /\ be[i] = MINWEB_TOKEN_MACRO_END
           /\ (i = 1 \/ be[i - 1] = MINWEB_TOKEN_MACRO_END)

\* stream k begins a macro it does not end
BeginsUnended(k) ==
    LET be == BeginsAndEnds(k)
    IN  \E i \in 1..Len(be) :
           /\ be[i] = MINWEB_TOKEN_MACRO_START
           /\ (i = Len(be) \/ be[i + 1] = MINWEB_TOKEN_MACRO_START)

\* C31: an included file cannot be unbalanced.  If the macro begin and end
\* tokens of an included stream are not balanced within that stream (it ends
\* a macro it did not begin, or begins one it does not end), run() does not
\* return normally: it fails with a structural error.
C31_IncludedStreamBalanced ==
    pc = "done" =>
       \A k \in 2..Len(streams) : ~EndsUnbegun(k) /\ ~BeginsUnended(k)

\* what does hold: in_macro is one flag for all streams of the run, so only
\* the state at the end of the included stream is tested.  A stream that
\* leaves a macro open fails at its Eof; a stream that ends a macro the
\* including stream had open is accepted, and run() can return normally only
\* if the macro was open at the point of inclusion.
C31_OnlyOpenMacroAtEofFails ==
    /\ pc = "done" => \A k \in 2..Len(streams) : ~BeginsUnended(k)
    /\ \A k \in 2..Len(streams) :
          (inc[k].closed /\ EndsUnbegun(k) /\ registered = AllCallbacks) =>
             \E e \in 1..inc[k].opened_at :
                /\ events[e].cb = "macro_begin"
                /\ \A f \in (e + 1)..inc[k].opened_at :
                      events[f].cb # "macro_end"

\* run() has returned normally after an included stream ended the macro of
\* the stream that included it
C31_IncludeEndsOuterMacro ==
    /\ pc = "done"
    /\ \E k \in 2..Len(streams) : inc[k].closed /\ EndsUnbegun(k)

\* the token being dispatched is one of the three kinds that carry no
\* nesting requirement
Unnested ==
    /\ pc = "dispatch"
    /\ tok \in { MINWEB_TOKEN_TEXT_SUBSTITUTION, MINWEB_TOKEN_PASSTHROUGH,
                 MINWEB_TOKEN_SPECIAL_DIRECTIVE }

\* C32: TextSubstitution, Passthrough and SpecialDirective tokens are
\* accepted both inside and outside a macro (no structural error is raised
\* for them) and never change the in-macro state; MacroRef never changes it
\* either.  Only a MacroStart sets in_macro and only a MacroEnd clears it,
\* and the text-substitution callback is invoked for every TextSubstitution
\* token regardless of nesting.
C32_InMacroFrame ==
    [][ /\ Unnested => (in_macro' = in_macro /\ ~(pc' = "error" /\ err'.located))
        /\ (pc = "dispatch" /\ tok = MINWEB_TOKEN_MACRO_REF)
              => in_macro' = in_macro
        /\ (in_macro' /\ ~in_macro)
              => (pc = "dispatch" /\ tok = MINWEB_TOKEN_MACRO_START)
        /\ (in_macro /\ ~in_macro')
              => (pc = "dispatch" /\ tok = MINWEB_TOKEN_MACRO_END)
        /\ (pc = "dispatch" /\ tok = MINWEB_TOKEN_TEXT_SUBSTITUTION
               /\ "text_substitution" \in registered)
              => /\ Len(events') = Len(events) + 1
                 /\ SubSeq(events', 1, Len(events)) = events
                 /\ events'[Len(events')].cb = "text_substitution"
                 /\ LET d == substitution_type_from_text_substitution(
                                 get_token_string(lexer))
                    IN  /\ d.ok
                        /\ events'[Len(events')].arg =
                              [type |-> d.type, key |-> d.key,
                               value |-> d.value]
      ]_vars

\* the text-substitution callback has been invoked for a token outside any
\* macro, and run() went on
C32_Witness ==
    /\ ~in_macro
    /\ pc = "read"
    /\ events # <<>>
    /\ events[Len(events)].cb = "text_substitution"

\* the text-substitution callback has been invoked for a token inside a macro
C32_WitnessInMacro ==
    /\ in_macro
    /\ pc = "read"
    /\ events # <<>>
    /\ events[Len(events)].cb = "text_substitution"

\* the macro callbacks are registered
MacroCallbacksRegistered ==
    {"macro_begin", "macro_end", "macro_ref"} \subseteq registered

\* the positions of the macro-begin and macro-end events, in order
RECURSIVE BeginEndEvents(_)
BeginEndEvents(k) ==
    IF k = 0 THEN <<>>
    ELSE IF events[k].cb \in {"macro_begin", "macro_end"}
      THEN Append(BeginEndEvents(k - 1), k)
    ELSE BeginEndEvents(k - 1)

\* the number of events of callback c
CountOf(c) == Cardinality({ k \in 1..Len(events) : events[k].cb = c })

\* C37: in every run with the macro callbacks registered, macro-begin and
\* macro-end events strictly alternate starting with a begin, every
\* macro-ref event occurs between a begin and its matching end, and when
\* run() returns normally the number of begin events equals the number of
\* end events; this holds across include pushes and pops, since the
\* in-macro state is shared by all streams of the run.
C37_BeginEndAlternate ==
    MacroCallbacksRegistered =>
       LET be == BeginEndEvents(Len(events))
       IN  /\ \A i \in 1..Len(be) :
                 events[be[i]].cb =
                    IF i % 2 = 1 THEN "macro_begin" ELSE "macro_end"
           /\ \A k \in 1..Len(events) :
                 events[k].cb = "macro_ref" =>
                    \E i \in 1..Len(be) :
                       /\ be[i] < k
                       /\ events[be[i]].cb = "macro_begin"
                       /\ \A j \in (i + 1)..Len(be) : be[j] > k
           /\ pc = "read" => (in_macro <=> Len(be) % 2 = 1)
           /\ pc = "done" => CountOf("macro_begin") = CountOf("macro_end")

\* run() has returned after a macro that begins in the root stream, holds a
\* reference made in an included stream and is ended by an included stream
C37_Witness ==
    /\ MacroCallbacksRegistered
    /\ pc = "done"
    /\ CountOf("macro_begin") = 1
    /\ \E b, k, e \in 1..Len(events) :
          /\ b < k /\ k < e
          /\ events[b].cb = "macro_begin" /\ events[b].stream = RootStream
          /\ events[k].cb = "macro_ref" /\ events[k].stream # RootStream
          /\ events[e].cb = "macro_end" /\ events[e].stream # RootStream

\* the decode failures that reach the caller of run(): of all exceptions
\* without a position only the unsupported directive comes from a decoder
C39_OnlyUnsupportedDirectiveFromRun ==
    (pc = "error" /\ ~err.located) =>
       \/ err.type = "processor_error"
             /\ err.msg = "Unsupported directive type"
       \/ err.type = "processor_error" /\ err.msg = "error: could not open"

\* run() is sequential code: as long as it has a next step, it takes it
FairSpec == Init /\ [][Next]_vars /\ WF_vars(Next)

\* run() has returned or thrown
RunEnded == pc \in {"done", "error"}

\* the characters the lexer has taken from the streams and not put back
Taken(lx, sp) == sp[lx.in] - Len(lx.putbackbuf)

\* C40: run() eventually terminates, normally or with an error, when every
\* stream is finite and include_stream is called only finitely often: each
\* loop iteration either consumes at least one character from the current
\* stream or the put-back queue, or pops one include-stack entry, or ends
\* the loop.
C40_RunTerminates ==
    /\ <>RunEnded
    /\ [][ /\ (pc = "read" /\ tok' # MINWEB_TOKEN_EOF)
                 => /\ Taken(lexer', spos') > Taken(lexer, spos)
                    /\ lexer'.in = lexer.in
           /\ (pc = "dispatch" /\ tok = MINWEB_TOKEN_EOF)
                 => \/ pc' \in {"done", "error"}
                    \/ Len(input_stack') = Len(input_stack) - 1
           /\ RunEnded => UNCHANGED vars
         ]_vars

\* run() has returned after two include_stream calls, both streams read to
\* their ends and popped
C40_Witness ==
    /\ pc = "done"
    /\ Len(streams) = 3
    /\ input_stack = <<>>
    /\ \A k \in 1..3 : spos[k] = Len(streams[k])
    /\ streams[2] # <<>>

(***************************************************************************)
(* The expansion engine of mintangle: the callbacks tangle() registers     *)
(* with the processor and the evaluation of the root macro.  `probe` holds *)
(* tangle's locals; `events` is the sequence of callbacks the processor    *)
(* has made and `in_macro` the processor's own flag.                       *)
(***************************************************************************)
\* `shared_ptr<macro> current_macro;` when empty
NoMacro == [set |-> FALSE]

\* nothing has been written to the output file
NoOut == [set |-> FALSE]

\* a fragment pushed by passthrough_callback: `[=]() -> string { return s; }`
TextFragment(s) == [kind |-> "text", s |-> s]

\* a fragment pushed by macro_ref_callback: the lambda that looks mn up
RefFragment(mn) == [kind |-> "ref", mn |-> mn]

\* passthrough_callback
passthrough_callback(g, s) ==
    IF g.current_macro.set
      THEN [g EXCEPT !.macros[g.current_macro.name].frags =
                        Append(@, TextFragment(s))]
      ELSE g

\* variant: a macro begin always starts the macro afresh
macro_begin_callback_replaces(g, m) ==
    LET node == IF m.name \in DOMAIN g.macros
                  THEN g.macros[m.name].node
                  ELSE Cardinality(DOMAIN g.macros) + 1
        ms   == [n \in DOMAIN g.macros \cup {m.name} |->
                   IF n = m.name THEN [node |-> node, frags |-> <<>>]
                                 ELSE g.macros[n]]
    IN  [g EXCEPT !.macros = ms,
                  !.current_macro = [set |-> TRUE, name |-> m.name],
                  !.macro_node = node]

\* macro_begin_callback: `macros.find(m.second)`, insert when absent
macro_begin_callback(g, m) ==
    LET ms == IF m.name \in DOMAIN g.macros
                THEN g.macros
                ELSE [n \in DOMAIN g.macros \cup {m.name} |->
                        IF n = m.name
                          THEN [node  |-> Cardinality(DOMAIN g.macros) + 1,
                                frags |-> <<>>]
                          ELSE g.macros[n]]
    IN  [g EXCEPT !.macros = ms,
                  !.current_macro = [set |-> TRUE, name |-> m.name],
                  !.macro_node = ms[m.name].node]

\* macro_end_callback
macro_end_callback(g) ==
    [g EXCEPT !.current_macro = NoMacro, !.macro_node = 0]

\* variant: the reference is resolved when it is recorded, against the macro
\* map as it is at that moment
macro_ref_callback_eager(g, mn) ==
    IF g.current_macro.set
      THEN [g EXCEPT !.macros[g.current_macro.name].frags =
                        IF mn \in DOMAIN g.macros
                          THEN @ \o g.macros[mn].frags
                          ELSE Append(@, TextFragment(
                                   <<"<", "<">> \o mn \o <<">", ">">>))]
      ELSE g

\* macro_ref_callback
macro_ref_callback(g, mn) ==
    IF g.current_macro.set
      THEN [g EXCEPT !.macros[g.current_macro.name].frags =
                        Append(@, RefFragment(mn))]
      ELSE g

\* `for (auto i : *f->second.second) ss << i();` for macro n.  A reference
\* to a macro that is being evaluated never returns: ok is FALSE.
\* variant: a reference to a macro that is not in the map evaluates to nothing
RECURSIVE evaluate_drops_absent(_, _, _)
evaluate_drops_absent(ms, n, active) ==
    LET RECURSIVE frags(_)
        frags(fs) ==
           IF fs = <<>> THEN [ok |-> TRUE, text |-> <<>>]
           ELSE LET f == Head(fs)
                    v == IF f.kind = "text" THEN [ok |-> TRUE, text |-> f.s]
                         ELSE IF f.mn \notin DOMAIN ms
                           THEN [ok |-> TRUE, text |-> <<>>]
                         ELSE IF f.mn \in active
                           THEN [ok |-> FALSE, text |-> <<>>]
                         ELSE evaluate_drops_absent(ms, f.mn,
                                                    active \cup {f.mn})
                    r == frags(Tail(fs))
                IN  [ok |-> v.ok /\ r.ok, text |-> v.text \o r.text]
    IN  frags(ms[n].frags)

\* variant: a reference to a macro that is being evaluated is cut short
RECURSIVE evaluate_cycle_guard(_, _, _)
evaluate_cycle_guard(ms, n, active) ==
    LET RECURSIVE frags(_)
        frags(fs) ==
           IF fs = <<>> THEN [ok |-> TRUE, text |-> <<>>]
           ELSE LET f == Head(fs)
                    v == IF f.kind = "text" THEN [ok |-> TRUE, text |-> f.s]
                         ELSE IF f.mn \notin DOMAIN ms
                           THEN [ok |-> TRUE,
                                 text |-> <<"<", "<">> \o f.mn \o <<">", ">">>]
                         ELSE IF f.mn \in active
                           THEN [ok |-> TRUE, text |-> <<>>]
                         ELSE evaluate_cycle_guard(ms, f.mn,
                                                   active \cup {f.mn})
                    r == frags(Tail(fs))
                IN  [ok |-> v.ok /\ r.ok, text |-> v.text \o r.text]
    IN  frags(ms[n].frags)

RECURSIVE evaluate(_, _, _)
evaluate(ms, n, active) ==
    LET RECURSIVE frags(_)
        frags(fs) ==
           IF fs = <<>> THEN [ok |-> TRUE, text |-> <<>>]
           ELSE LET f == Head(fs)
                    v == IF f.kind = "text" THEN [ok |-> TRUE, text |-> f.s]
                         ELSE IF f.mn \notin DOMAIN ms
                           THEN [ok |-> TRUE,
                                 text |-> <<"<", "<">> \o f.mn \o <<">", ">">>]
                         ELSE IF f.mn \in active
                           THEN [ok |-> FALSE, text |-> <<>>]
                         ELSE evaluate(ms, f.mn, active \cup {f.mn})
                    r == frags(Tail(fs))
                IN  [ok |-> v.ok /\ r.ok, text |-> v.text \o r.text]
    IN  frags(ms[n].frags)

\* the names of the macros of a document, and the root name
TangleNames == { <<"a">>, <<"b">>, <<"*">> }

\* the arguments macro_begin_callback is called with
TangleBegins ==
    { [type |-> MINWEB_MACRO_TYPE_DEFAULT, name |-> <<"a">>],
      [type |-> MINWEB_MACRO_TYPE_FILE,    name |-> <<"a">>],
      [type |-> MINWEB_MACRO_TYPE_DEFAULT, name |-> <<"b">>] }

\* the locals the callbacks of tangle capture, as they are declared
TangleLocals ==
    [op |-> "tangle", macros |-> <<>>, current_macro |-> NoMacro,
     macro_node |-> 0, out |-> NoOut]

\* tangle() before `p->run()`
TangleInit ==
    /\ NoInput
    /\ tok = NoToken
    /\ in_macro = FALSE
    /\ input_stack = <<>>
    /\ registered = AllCallbacks \ {"text_substitution"}
    /\ includes = <<>>
    /\ pc = "read"
    /\ cb = NoCb
    /\ err = NoErr
    /\ events = <<>>
    /\ captured = <<>>
    /\ resume = NoResume
    /\ lasttok = NoTok
    /\ probe = TangleLocals

\* the part shared by the steps in which run() invokes a callback of tangle
TangleCallback(name, arg) ==
    /\ probe.op = "tangle"
    /\ pc = "read"
    /\ Len(events) < MaxCalls
    /\ events' = Append(events, Event(name, arg))
    /\ UNCHANGED <<streams, spos, lexer, tok, input_stack, registered,
                   includes, pc, cb, err, consumed, captured, resume, lasttok,
                   inc>>

\* run() hands a passthrough token to tangle
TanglePassthrough ==
    \E s \in IF in_macro THEN {<<"x">>, <<"y">>} ELSE {<<"x">>} :
       /\ TangleCallback("passthrough", s)
       /\ probe' = passthrough_callback(probe, s)
       /\ UNCHANGED in_macro

\* run() hands a macro begin to tangle; run() throws on a nested one
TangleMacroBegin ==
    \E m \in TangleBegins :
       /\ ~in_macro
       /\ TangleCallback("macro_begin", m)
       /\ probe' = macro_begin_callback(probe, m)
       /\ in_macro' = TRUE

\* run() hands a macro end to tangle; run() throws on a dangling one
TangleMacroEnd ==
    /\ in_macro
    /\ TangleCallback("macro_end", <<>>)
    /\ probe' = macro_end_callback(probe)
    /\ in_macro' = FALSE

\* run() hands a macro reference to tangle; run() throws outside a macro
TangleMacroRef ==
    \E mn \in {<<"b">>} :
       /\ in_macro
       /\ TangleCallback("macro_ref", mn)
       /\ probe' = macro_ref_callback(probe, mn)
       /\ UNCHANGED in_macro

\* the part shared by the steps that end `p->run()`
TangleRunEnds ==
    /\ probe.op = "tangle"
    /\ pc = "read"
    /\ UNCHANGED <<streams, spos, lexer, tok, in_macro, input_stack,
                   registered, includes, cb, events, consumed, captured,
                   resume, lasttok, inc, probe>>

\* run() returns at the end of the input
TangleRunReturns ==
    /\ TangleRunEnds
    /\ ~in_macro
    /\ pc' = "done"
    /\ UNCHANGED err

\* run() throws at the end of the input: `cerr << e.what(); return 1;`
TangleRunThrows ==
    /\ TangleRunEnds
    /\ in_macro
    /\ pc' = "error"
    /\ err' = located_error("Expected a macro end.")

\* `shared_ptr<string> root` when no -r option was given
NoRoot == [set |-> FALSE]

\* the root argument of tangle: none, or the name of macro a
RootArgs == { NoRoot, [set |-> TRUE, name |-> <<"a">>] }

\* variant: the root argument is ignored
root_node_default_only(root) == <<"*">>

\* `if (!!root) root_node = *root; else root_node = "*";`
root_node(root) == IF root.set THEN root.name ELSE <<"*">>

\* `macros.find(root_node)` and, when found, `outfile << i()` for each of
\* its fragments; an evaluation that recurses without end never returns
build_root(g, root) ==
    [g EXCEPT !.out =
        IF root_node(root) \notin DOMAIN g.macros
          THEN [set |-> TRUE, arg |-> root, root |-> root_node(root),
                found |-> FALSE, ret |-> 1]
          ELSE Bind(evaluate(g.macros, root_node(root), {root_node(root)}),
                    LAMBDA v : [set |-> TRUE, arg |-> root,
                                root |-> root_node(root), found |-> TRUE,
                                ok |-> v.ok, text |-> v.text, ret |-> 0])]

\* the end of tangle(), after `p->run()` has returned
TangleBuildRoot ==
    /\ probe.op = "tangle"
    /\ pc = "done"
    /\ \E root \in RootArgs : probe' = build_root(probe, root)
    /\ pc' = IF probe'.out.found /\ ~probe'.out.ok THEN "diverged" ELSE "exit"
    /\ UNCHANGED <<streams, spos, lexer, tok, in_macro, input_stack,
                   registered, includes, cb, err, events, consumed, captured,
                   resume, lasttok, inc>>

TangleNext ==
    \/ TanglePassthrough
    \/ TangleMacroBegin
    \/ TangleMacroEnd
    \/ TangleMacroRef
    \/ TangleRunReturns
    \/ TangleRunThrows
    \/ TangleBuildRoot

TangleSpec == TangleInit /\ [][TangleNext]_vars

\* callback k was made inside a block of macro n
InBlockOf(n, k) ==
    \E b \in 1..(k - 1) :
       /\ events[b].cb = "macro_begin"
       /\ events[b].arg.name = n
       /\ \A j \in (b + 1)..(k - 1) :
             events[j].cb \notin {"macro_begin", "macro_end"}

\* the fragments of the blocks of macro n among the first k callbacks, in
\* the order of the document
RECURSIVE BlockFragments(_, _)
BlockFragments(n, k) ==
    IF k = 0 THEN <<>>
    ELSE IF events[k].cb = "passthrough" /\ InBlockOf(n, k)
      THEN Append(BlockFragments(n, k - 1), TextFragment(events[k].arg))
    ELSE IF events[k].cb = "macro_ref" /\ InBlockOf(n, k)
      THEN Append(BlockFragments(n, k - 1), RefFragment(events[k].arg))
    ELSE BlockFragments(n, k - 1)

\* what a fragment of macro n evaluates to
FragmentText(n, f) ==
    IF f.kind = "text" THEN f.s
    ELSE IF f.mn \notin DOMAIN probe.macros
      THEN <<"<", "<">> \o f.mn \o <<">", ">">>
    ELSE evaluate(probe.macros, f.mn, {n, f.mn}).text

\* the root macro has been evaluated and the evaluation came to an end
RootEvaluated ==
    /\ probe.op = "tangle"
    /\ probe.out.set
    /\ probe.out.found
    /\ probe.out.ok

\* C20: macro accretion.  The first macro begin for a name creates its
\* entry, every later macro begin with that name appends to the same
\* sequence of fragments, and evaluating the macro yields the concatenation
\* of the fragments of all its blocks in document order, whatever other
\* macros were defined in between.
C20_MacroAccretion ==
    probe.op = "tangle" =>
       /\ \A n \in TangleNames :
             /\ n \in DOMAIN probe.macros <=>
                   \E k \in 1..Len(events) :
                      events[k].cb = "macro_begin" /\ events[k].arg.name = n
             /\ n \in DOMAIN probe.macros =>
                   probe.macros[n].frags = BlockFragments(n, Len(events))
       /\ RootEvaluated =>
             LET n  == probe.out.root
                 fs == BlockFragments(n, Len(events))
             IN  probe.out.text =
                    Flatten([k \in 1..Len(fs) |-> FragmentText(n, fs[k])])

\* macro a was defined in two blocks with a block of macro b between them,
\* each block with a fragment, and a has been evaluated to the text of its
\* first block followed by the text of its second
C20_Witness ==
    /\ RootEvaluated
    /\ probe.out.root = <<"a">>
    /\ probe.out.text = <<"x", "y">>
    /\ <<"b">> \in DOMAIN probe.macros
    /\ probe.macros[<<"b">>].frags # <<>>
    /\ \E i, j, k \in 1..Len(events) :
          /\ i < j /\ j < k
          /\ events[i].cb = "macro_begin" /\ events[i].arg.name = <<"a">>
          /\ events[j].cb = "macro_begin" /\ events[j].arg.name = <<"b">>
          /\ events[k].cb = "macro_begin" /\ events[k].arg.name = <<"a">>

\* the text `<<mn>>`
RefLiteral(mn) == <<"<", "<">> \o mn \o <<">", ">">>

\* tangle has looked the root macro up and found it
RootBuilt == probe.op = "tangle" /\ probe.out.set /\ probe.out.found

\* every reference in the root macro names a macro that is not in the map
RootRefsAbsent ==
    \A k \in 1..Len(probe.macros[probe.out.root].frags) :
       LET f == probe.macros[probe.out.root].frags[k]
       IN  f.kind = "ref" => f.mn \notin DOMAIN probe.macros

\* C21: evaluating a macro that references a name absent from the macro map
\* after run() is not an error; the reference yields the literal text
\* `<<name>>` at its position and the fragments around it are evaluated as
\* usual.
C21_AbsentReferenceIsLiteral ==
    (RootBuilt /\ RootRefsAbsent) =>
       LET fs == probe.macros[probe.out.root].frags
       IN  /\ probe.out.ok
           /\ probe.out.text =
                 Flatten([k \in 1..Len(fs) |->
                            IF fs[k].kind = "text" THEN fs[k].s
                                                   ELSE RefLiteral(fs[k].mn)])

\* macro a, made of text, a reference to the undefined macro b and more text,
\* has been evaluated
C21_Witness ==
    /\ RootBuilt
    /\ probe.out.root = <<"a">>
    /\ <<"b">> \notin DOMAIN probe.macros
    /\ probe.out.text = <<"x", "<", "<", "b", ">", ">", "y">>

\* macro n has a block somewhere in the document
HasBlock(n) ==
    \E k \in 1..Len(events) :
       events[k].cb = "macro_begin" /\ events[k].arg.name = n

\* the expansion of macro n against the whole document: the fragments of all
\* its blocks, each reference replaced by the expansion of its target
RECURSIVE Expansion(_)
Expansion(n) ==
    LET fs == BlockFragments(n, Len(events))
    IN  Flatten([k \in 1..Len(fs) |->
                   IF fs[k].kind = "text" THEN fs[k].s
                   ELSE IF HasBlock(fs[k].mn) THEN Expansion(fs[k].mn)
                   ELSE RefLiteral(fs[k].mn)])

\* callback k records a reference to macro n in a block of the root macro
RootRefTo(n, k) ==
    /\ events[k].cb = "macro_ref"
    /\ events[k].arg = n
    /\ InBlockOf(probe.out.root, k)

\* C33: references are resolved lazily, at evaluation time, against the final
\* macro map.  A reference recorded before its target macro is defined, or
\* before a later block extends the target, expands to the target's complete
\* final sequence of fragments, and a macro referenced N times contributes N
\* identical full expansions.
C33_LazyResolution ==
    RootEvaluated =>
       /\ probe.out.text = Expansion(probe.out.root)
       /\ \A k \in 1..Len(events) :
             (RootRefTo(events[k].arg, k) /\ HasBlock(events[k].arg))
                => FragmentText(probe.out.root, RefFragment(events[k].arg))
                      = Expansion(events[k].arg)

\* macro a references b before b has any block; b then gets two blocks, and
\* a has been evaluated to the text of both
C33_Witness ==
    /\ RootEvaluated
    /\ probe.out.root = <<"a">>
    /\ probe.out.text = <<"x", "y">>
    /\ \E k, i, j \in 1..Len(events) :
          /\ k < i /\ i < j
          /\ RootRefTo(<<"b">>, k)
          /\ \A h \in 1..k : ~(events[h].cb = "macro_begin"
                                 /\ events[h].arg.name = <<"b">>)
          /\ events[i].cb = "macro_begin" /\ events[i].arg.name = <<"b">>
          /\ events[j].cb = "macro_begin" /\ events[j].arg.name = <<"b">>

\* macro a references b twice and has been evaluated to two full expansions
\* of b
C33_WitnessTwice ==
    /\ RootEvaluated
    /\ probe.out.root = <<"a">>
    /\ probe.out.text = <<"x", "y", "x", "y">>
    /\ \E k, i \in 1..Len(events) :
          k < i /\ RootRefTo(<<"b">>, k) /\ RootRefTo(<<"b">>, i)

(***************************************************************************)
(* The evaluation of the root macro on its own, from every macro map that  *)
(* a run over macros a, b and * with at most MaxFrags fragments each       *)
(* leaves behind.                                                          *)
(***************************************************************************)
\* the fragments a block may hold: text, a reference to a or to b, either
\* of which may have no block
EvalFragments ==
    { TextFragment(<<"x">>), RefFragment(<<"a">>), RefFragment(<<"b">>) }

\* the macros of the map, in the order of their first blocks
EvalNames == << <<"a">>, <<"b">>, <<"*">> >>

\* the macro map in which the macros numbered I are defined, fs[i] being
\* the fragments of macro i
EvalMap(I, fs) ==
    [n \in { EvalNames[i] : i \in I } |->
       LET i == CHOOSE j \in I : EvalNames[j] = n
       IN  [node  |-> Cardinality({ j \in I : j <= i }),
            frags |-> fs[i]]]

\* tangle() after `p->run()` has returned
EvalInit ==
    /\ NoInput
    /\ tok = MINWEB_TOKEN_EOF
    /\ in_macro = FALSE
    /\ input_stack = <<>>
    /\ registered = AllCallbacks \ {"text_substitution"}
    /\ includes = <<>>
    /\ pc = "done"
    /\ cb = NoCb
    /\ err = NoErr
    /\ events = <<>>
    /\ captured = <<>>
    /\ resume = NoResume
    /\ lasttok = NoTok
    /\ \E I \in SUBSET (1..Len(EvalNames)) :
          \E fs \in [I -> Docs(OneChar(EvalFragments), MaxFrags)] :
             probe = [op |-> "tangle", macros |-> EvalMap(I, fs),
                      current_macro |-> NoMacro, macro_node |-> 0,
                      out |-> NoOut]

EvalNext == TangleBuildRoot

EvalSpec == EvalInit /\ [][EvalNext]_vars

\* the macros of the map that macro n references
RefsOf(n) ==
    { f.mn : f \in { probe.macros[n].frags[k] :
                       k \in { j \in 1..Len(probe.macros[n].frags) :
                                 probe.macros[n].frags[j].kind = "ref" } } }
       \cap DOMAIN probe.macros

\* the macros reachable from the macros of S through references
RECURSIVE ReachableFrom(_)
ReachableFrom(S) ==
    LET T == S \cup UNION { RefsOf(n) : n \in S }
    IN  IF T = S THEN S ELSE ReachableFrom(T)

\* macro n lies on a reference cycle
OnCycle(n) == n \in ReachableFrom(RefsOf(n))

\* a reference cycle is reachable from macro n, n included
CycleReachable(n) == \E k \in ReachableFrom({n}) : OnCycle(k)

\* C22: macro evaluation has no cycle guard.  Evaluating a macro comes to an
\* end if and only if no macro reachable from it through references, itself
\* included, lies on a reference cycle; when a cycle is reachable the
\* evaluation recurses without bound, and no error is reported for it.
C22_NoCycleGuard ==
    /\ RootBuilt =>
          /\ probe.out.ok <=> ~CycleReachable(probe.out.root)
          /\ pc = "diverged" <=> CycleReachable(probe.out.root)
    /\ probe.op = "tangle" => ~err.raised

\* the evaluation of a never returns because a references b and b
\* references a
C22_Witness ==
    /\ RootBuilt
    /\ pc = "diverged"
    /\ probe.out.root = <<"a">>
    /\ <<"a">> \notin RefsOf(<<"a">>)
    /\ <<"b">> \in RefsOf(<<"a">>)
    /\ <<"a">> \in RefsOf(<<"b">>)

\* the evaluation of a references b and has come to an end
C22_WitnessAcyclic ==
    /\ RootBuilt
    /\ pc = "exit"
    /\ probe.out.root = <<"a">>
    /\ <<"b">> \in RefsOf(<<"a">>)

\* C23: root resolution.  After run() has succeeded tangle evaluates the
\* macro named by the root argument, or the macro named "*" when no root is
\* given; when that name is not in the macro map tangle reports an error and
\* returns non-zero, and no macro is evaluated.
C23_RootResolution ==
    (probe.op = "tangle" /\ probe.out.set) =>
       /\ probe.out.root = IF probe.out.arg.set THEN probe.out.arg.name
                                                ELSE <<"*">>
       /\ IF probe.out.root \in DOMAIN probe.macros
            THEN /\ probe.out.found
                 /\ probe.out.ok =>
                       /\ probe.out.ret = 0
                       /\ probe.out.text =
                             evaluate(probe.macros, probe.out.root,
                                      {probe.out.root}).text
            ELSE /\ ~probe.out.found
                 /\ probe.out.ret # 0
                 /\ DOMAIN probe.out = {"set", "arg", "root", "found", "ret"}

\* without a root argument and with macro a defined but no macro "*",
\* tangle has returned non-zero
C23_Witness ==
    /\ probe.op = "tangle"
    /\ probe.out.set
    /\ ~probe.out.arg.set
    /\ ~probe.out.found
    /\ probe.out.ret = 1
    /\ <<"a">> \in DOMAIN probe.macros

\* without a root argument, macro "*" has been evaluated to its text
C23_WitnessDefault ==
    /\ probe.op = "tangle"
    /\ probe.out.set
    /\ ~probe.out.arg.set
    /\ probe.out.found
    /\ probe.out.ok
    /\ probe.out.text = <<"x">>

\* the evaluation is not reached when run() has thrown
C23_NoBuildAfterError ==
    (probe.op = "tangle" /\ pc \in {"read", "error"}) => ~probe.out.set

(***************************************************************************)
(* tangle() on a document: the processor reads the document and makes the  *)
(* callbacks tangle registered; the locals of tangle are what these        *)
(* callbacks, applied in the order of `events`, leave behind.              *)
(***************************************************************************)
\* the header texts of the macros of a document
WebHeaders ==
    { <<"a">>, STR_FILE \o <<":", "a">>, STR_SECTION \o <<":", "a">>,
      <<"F", ":", "a">> }

\* a macro X with the body `x`, then the root macro with the body `y<<R>>`
WebDoc(X, R) ==
    <<"<", "<">> \o X \o <<">", ">", "=", "x">> \o SEG_end
       \o <<"<", "<", "*", ">", ">", "=", "y", "<", "<">> \o R \o <<">", ">">>
       \o SEG_end

\* the callbacks of tangle applied to the invocations es, from locals g
RECURSIVE Replay(_, _)
Replay(es, g) ==
    IF es = <<>> THEN g
    ELSE LET e == Head(es)
             h == IF e.cb = "passthrough" THEN passthrough_callback(g, e.arg)
                  ELSE IF e.cb = "macro_begin"
                    THEN macro_begin_callback(g, e.arg)
                  ELSE IF e.cb = "macro_end" THEN macro_end_callback(g)
                  ELSE IF e.cb = "macro_ref" THEN macro_ref_callback(g, e.arg)
                  ELSE g
         IN  Replay(Tail(es), h)

\* `p = make_shared<processor>(&in, input);` and the registrations
WebInit ==
    /\ \E X \in WebHeaders, R \in WebHeaders : streams = <<WebDoc(X, R)>>
    /\ spos = <<0>>
    /\ lexer = lexer_new(RootStream, RootName)
    /\ tok = NoToken
    /\ in_macro = FALSE
    /\ input_stack = <<>>
    /\ registered = AllCallbacks \ {"text_substitution"}
    /\ includes = <<>>
    /\ pc = "read"
    /\ cb = NoCb
    /\ err = NoErr
    /\ events = <<>>
    /\ consumed = << <<>> >>
    /\ captured = <<>>
    /\ resume = NoResume
    /\ lasttok = NoTok
    /\ inc = << NoInc >>
    /\ probe = NoProbe

\* the end of tangle(), after `p->run()` has returned
WebBuildRoot ==
    /\ probe.op = "none"
    /\ pc = "done"
    /\ \E root \in RootArgs :
          probe' = build_root(Replay(events, TangleLocals), root)
    /\ pc' = IF probe'.out.found /\ ~probe'.out.ok THEN "diverged" ELSE "exit"
    /\ UNCHANGED <<streams, spos, lexer, tok, in_macro, input_stack,
                   registered, includes, cb, err, events, consumed, captured,
                   resume, lasttok, inc>>

WebNext ==
    \/ Read
    \/ MacroStart
    \/ MacroEnd
    \/ MacroRef
    \/ Passthrough
    \/ EofReturn
    \/ WebBuildRoot

WebSpec == WebInit /\ [][WebNext]_vars

\* tangle has evaluated the root macro "*" of the document WebDoc(X, R)
WebEvaluated(X, R) ==
    /\ streams = <<WebDoc(X, R)>>
    /\ probe.op = "tangle"
    /\ probe.out.set
    /\ probe.out.root = <<"*">>

\* C24: a reference `<<X>>` in a macro body is resolved by substituting the
\* expansion of the macro the `<<X>>=` blocks define, for every header text
\* X the lexer accepts, FILE:n and SECTION:n included.
C24_ReferenceResolvesHeader ==
    \A X \in WebHeaders :
       WebEvaluated(X, X) =>
          /\ probe.out.found
          /\ probe.out.ok
          /\ probe.out.text = <<"y", "x">>

\* what does hold: the reference `<<R>>` is looked up under the whole text
\* R, while the block `<<X>>=` is stored under the name its decoder gives,
\* which for FILE:n and SECTION:n is n.  The reference is resolved when
\* these two are equal and is left as the text `<<R>>` otherwise.
C24_ReferenceResolvesDecodedName ==
    \A X \in WebHeaders, R \in WebHeaders :
       WebEvaluated(X, R) =>
          /\ probe.out.found
          /\ probe.out.ok
          /\ probe.out.text =
                IF R = macro_type_from_macro_begin(
                          <<"<", "<">> \o X \o <<">", ">", "=">>).name
                  THEN <<"y", "x">>
                  ELSE <<"y">> \o RefLiteral(R)

\* the reference `<<a>>` has been resolved to the block `<<FILE:a>>=`
C24_FileBlockReferencedByName ==
    /\ WebEvaluated(STR_FILE \o <<":", "a">>, <<"a">>)
    /\ probe.out.text = <<"y", "x">>

(***************************************************************************)
(* tangle() on documents that define the root macro in one or two blocks    *)
(* with text around them.  `probe` holds tangle's locals and, as history,   *)
(* the text the document was put together from.                            *)
(***************************************************************************)
\* what a macro body is made of: text, line ends, the characters that start
\* or follow a token, a text substitution and a language directive
BodySegs ==
    { <<"x">>, <<NL>>, <<"=">>, <<"%">>, <<"#">>, <<"]">>, <<"<">>,
      SEG_subst, SEG_language }

\* the bodies of the first block
FirstBodies == Docs(BodySegs, MaxBodySegs)

\* the bodies of the second block
SecondBodies == { <<>>, <<"y">>, <<"y">> \o SEG_subst }

\* a block of the root macro with body b
RootBlock(b) == <<"<", "<", "*", ">", ">", "=">> \o b \o SEG_end

\* the document: the blocks with bodies bs, the text pre before and after
\* each of them
BlocksDoc(pre, bs) ==
    pre \o Flatten([i \in 1..Len(bs) |-> RootBlock(bs[i]) \o pre])

\* `p = make_shared<processor>(&in, input);` and the registrations
BlocksInit ==
    /\ \E pre \in { <<>>, <<"x">> }, b \in FirstBodies :
          \E bs \in { <<b>> } \cup { <<b, c>> : c \in SecondBodies } :
             /\ streams = << BlocksDoc(pre, bs) >>
             /\ probe = [op |-> "tangle", macros |-> <<>>,
                         current_macro |-> NoMacro, macro_node |-> 0,
                         out |-> NoOut, pre |-> pre, bodies |-> bs]
    /\ spos = <<0>>
    /\ lexer = lexer_new(RootStream, RootName)
    /\ tok = NoToken
    /\ in_macro = FALSE
    /\ input_stack = <<>>
    /\ registered = AllCallbacks \ {"text_substitution"}
    /\ includes = <<>>
    /\ pc = "read"
    /\ cb = NoCb
    /\ err = NoErr
    /\ events = <<>>
    /\ consumed = << <<>> >>
    /\ captured = <<>>
    /\ resume = NoResume
    /\ lasttok = NoTok
    /\ inc = << NoInc >>

\* the end of tangle(), after `p->run()` has returned, with no -r option
BlocksBuildRoot ==
    /\ probe.op = "tangle"
    /\ ~probe.out.set
    /\ pc = "done"
    /\ probe' = build_root(Replay(events, probe), NoRoot)
    /\ pc' = IF probe'.out.found /\ ~probe'.out.ok THEN "diverged" ELSE "exit"
    /\ UNCHANGED <<streams, spos, lexer, tok, in_macro, input_stack,
                   registered, includes, cb, err, events, consumed, captured,
                   resume, lasttok, inc>>

BlocksNext ==
    \/ Read
    \/ MacroStart
    \/ MacroEnd
    \/ Passthrough
    \/ TextSubstitution
    \/ SpecialDirective
    \/ EofInMacro
    \/ EofReturn
    \/ MacroStartNested
    \/ BlocksBuildRoot

BlocksSpec == BlocksInit /\ [][BlocksNext]_vars

\* the root macro of the document has been evaluated
BlocksEvaluated ==
    /\ probe.op = "tangle"
    /\ probe.out.set
    /\ probe.out.found
    /\ probe.out.ok

\* the document holds a text substitution or a special directive
HasUnregisteredToken ==
    \E k \in 1..Len(TokensOf(RootStream)) :
       TokensOf(RootStream)[k].tok \in { MINWEB_TOKEN_TEXT_SUBSTITUTION,
                                         MINWEB_TOKEN_SPECIAL_DIRECTIVE }

\* C34: tangle fidelity.  For a macro whose blocks contain no macro
\* references, the evaluated text equals exactly the concatenation of the raw
\* document text of its block bodies (every character between each
\* `<<name>>=` token and its `>>@<<` token), for any body content; text
\* outside any macro contributes nothing.
C34_TangleFidelity ==
    BlocksEvaluated => probe.out.text = Flatten(probe.bodies)

\* what does hold: the evaluated text is the concatenation of the
\* passthrough tokens of the bodies; it is the raw text of the bodies when
\* they hold no text substitution and no special directive, and text outside
\* the blocks contributes nothing
C34_PassthroughFidelity ==
    BlocksEvaluated =>
       /\ probe.out.text =
             Flatten([k \in 1..Len(probe.macros[<<"*">>].frags) |->
                         probe.macros[<<"*">>].frags[k].s])
       /\ probe.macros[<<"*">>].frags =
             BlockFragments(<<"*">>, Len(events))
       /\ ~HasUnregisteredToken => probe.out.text = Flatten(probe.bodies)

\* the root macro with the body `%[k=v]%` has been evaluated to nothing
C34_SubstitutionDropped ==
    /\ BlocksEvaluated
    /\ probe.bodies = << SEG_subst >>
    /\ probe.out.text = <<>>

\* a document with text around two blocks, a line end and a lone `%` among
\* them, has been evaluated to the text of the two bodies
C34_WitnessPlain ==
    /\ BlocksEvaluated
    /\ probe.pre = <<"x">>
    /\ probe.bodies = << <<"%", NL>>, <<"y">> >>
    /\ probe.out.text = <<"%", NL, "y">>

(***************************************************************************)
(* minweb::graph.  `probe` holds the node map, the calls made so far and   *)
(* the result of topological_sort.                                         *)
(***************************************************************************)
\* the node ids of the calls
NodeIds == 1..MaxNode

\* variant: add_node starts the node afresh
add_node_resets(nodes, node) ==
    [n \in DOMAIN nodes \cup {node} |-> IF n = node THEN {} ELSE nodes[n]]

\* graph::add_node: `nodes.insert(make_pair(node, make_shared<set<int>>()))`,
\* which leaves a key that is present as it is
add_node(nodes, node) ==
    IF node \in DOMAIN nodes
      THEN nodes
      ELSE [n \in DOMAIN nodes \cup {node} |->
              IF n = node THEN {} ELSE nodes[n]]

\* variant: the target of the edge is not added to the node map
add_edge_no_target(nodes, node, toNode) ==
    LET g1 == IF node \notin DOMAIN nodes THEN add_node(nodes, node)
                                          ELSE nodes
    IN  [g1 EXCEPT ![node] = @ \cup {toNode}]

\* graph::add_edge
add_edge(nodes, node, toNode) ==
    LET g1 == IF node \notin DOMAIN nodes THEN add_node(nodes, node)
                                          ELSE nodes
        g2 == [g1 EXCEPT ![node] = @ \cup {toNode}]
    IN  IF toNode \notin DOMAIN g2 THEN add_node(g2, toNode) ELSE g2

\* variant: the scan meets the nodes in descending key order
RECURSIVE sort_loop_descending(_, _)
sort_loop_descending(sort_nodes, output_list) ==
    IF DOMAIN sort_nodes = {}
      THEN [ok |-> TRUE, output_list |-> output_list,
            sort_nodes |-> sort_nodes]
    ELSE LET ready == { n \in DOMAIN sort_nodes : sort_nodes[n] = {} }
         IN  IF ready = {}
               THEN [ok |-> FALSE, what |-> "cycle detected.",
                     output_list |-> output_list, sort_nodes |-> sort_nodes]
               ELSE LET i == CHOOSE n \in ready : \A k \in ready : n >= k
                    IN  sort_loop_descending(
                            [n \in DOMAIN sort_nodes \ {i} |->
                               sort_nodes[n] \ {i}],
                            Append(output_list, i))

\* `while (sort_nodes.size() > 0)`: the first node, in key order, without
\* dependencies is erased from every set and from the map and pushed onto
\* the output list; cycle_error when there is none
RECURSIVE sort_loop(_, _)
sort_loop(sort_nodes, output_list) ==
    IF DOMAIN sort_nodes = {}
      THEN [ok |-> TRUE, output_list |-> output_list,
            sort_nodes |-> sort_nodes]
    ELSE LET ready == { n \in DOMAIN sort_nodes : sort_nodes[n] = {} }
         IN  IF ready = {}
               THEN [ok |-> FALSE, what |-> "cycle detected.",
                     output_list |-> output_list, sort_nodes |-> sort_nodes]
               ELSE LET i == CHOOSE n \in ready : \A k \in ready : n <= k
                    IN  sort_loop([n \in DOMAIN sort_nodes \ {i} |->
                                     sort_nodes[n] \ {i}],
                                  Append(output_list, i))

\* what a call of topological_sort leaves behind: whether it returned or
\* threw, the caller's list, and the node map of the graph
sort_result(v, nodes) ==
    [ok |-> v.ok, output_list |-> v.output_list, nodes |-> nodes]

\* variant: the nodes are pushed in key order
topological_sort_key_order(nodes, output_list) ==
    sort_result(sort_loop([n \in DOMAIN nodes |-> {}], output_list), nodes)

\* variant: a node's edge to itself is not a dependency
topological_sort_ignores_self_edge(nodes, output_list) ==
    sort_result(sort_loop([n \in DOMAIN nodes |-> nodes[n] \ {n}],
                          output_list), nodes)

\* variant: sort_nodes shares the dependency sets of the graph instead of
\* copying them, so the erasures of the loop reach the graph
topological_sort_shared_sets(nodes, output_list) ==
    Bind(sort_loop(nodes, output_list), LAMBDA v :
        sort_result(v, [n \in DOMAIN nodes |->
                          IF n \in DOMAIN v.sort_nodes THEN v.sort_nodes[n]
                                                       ELSE {}]))

\* graph::topological_sort (const); output_list is the caller's list.  The
\* loop works on sort_nodes, a copy of the map made with
\* `make_shared<set<int>>(*i.second)` for every node.
topological_sort(nodes, output_list) ==
    sort_result(sort_loop(nodes, output_list), nodes)

\* `graph g;`
GraphInit ==
    /\ NoInput
    /\ Idle
    /\ probe = [op |-> "graph", nodes |-> <<>>, edges |-> {}, n |-> 0,
                last |-> [fn |-> "graph"], out |-> NoOut, again |-> NoOut]

\* the part shared by the calls that build the graph
GraphCall ==
    /\ probe.op = "graph"
    /\ ~probe.out.set
    /\ probe.n < MaxGraphCalls
    /\ UNCHANGED <<streams, spos, lexer, tok, in_macro, input_stack,
                   registered, includes, pc, cb, err, events, consumed,
                   captured, resume, lasttok, inc>>

\* `g.add_node(node);`
GraphAddNode ==
    /\ GraphCall
    /\ \E node \in NodeIds :
          probe' = [probe EXCEPT !.nodes = add_node(@, node),
                                 !.n = @ + 1,
                                 !.last = [fn |-> "add_node", node |-> node]]

\* `g.add_edge(node, toNode);`
GraphAddEdge ==
    /\ GraphCall
    /\ \E node \in NodeIds, toNode \in NodeIds :
          probe' = [probe EXCEPT !.nodes = add_edge(@, node, toNode),
                                 !.edges = @ \cup {<<node, toNode>>},
                                 !.n = @ + 1,
                                 !.last = [fn |-> "add_edge", node |-> node,
                                           toNode |-> toNode]]

\* `g.topological_sort(sorted_nodes);` with a list that is empty or not
GraphSort ==
    /\ probe.op = "graph"
    /\ ~probe.out.set
    /\ \E sorted_nodes \in {<<>>, <<0>>} :
          \E v \in { topological_sort(probe.nodes, sorted_nodes) } :
             probe' = [probe EXCEPT
                         !.last = [fn |-> "topological_sort"],
                         !.nodes = v.nodes,
                         !.out = [set |-> TRUE, given |-> sorted_nodes,
                                  ok |-> v.ok,
                                  output_list |-> v.output_list]]
    /\ UNCHANGED <<streams, spos, lexer, tok, in_macro, input_stack,
                   registered, includes, pc, cb, err, events, consumed,
                   captured, resume, lasttok, inc>>

\* a second `g.topological_sort(sorted_nodes);` on the same graph
GraphSortAgain ==
    /\ probe.op = "graph"
    /\ probe.out.set
    /\ ~probe.again.set
    /\ \E sorted_nodes \in {<<>>, <<0>>} :
          \E v \in { topological_sort(probe.nodes, sorted_nodes) } :
             probe' = [probe EXCEPT
                         !.last = [fn |-> "topological_sort"],
                         !.nodes = v.nodes,
                         !.again = [set |-> TRUE, given |-> sorted_nodes,
                                    ok |-> v.ok,
                                    output_list |-> v.output_list]]
    /\ UNCHANGED <<streams, spos, lexer, tok, in_macro, input_stack,
                   registered, includes, pc, cb, err, events, consumed,
                   captured, resume, lasttok, inc>>

GraphNext ==
    \/ GraphAddNode
    \/ GraphAddEdge
    \/ GraphSort
    \/ GraphSortAgain

GraphSpec == GraphInit /\ [][GraphNext]_vars

\* topological_sort has been called
Sorted == probe.op = "graph" /\ probe.out.set

\* what topological_sort has pushed onto the list it was given
Pushed ==
    SubSeq(probe.out.output_list, Len(probe.out.given) + 1,
           Len(probe.out.output_list))

\* the nodes that node n reaches over one or more of the edges added
RECURSIVE EdgeClosure(_)
EdgeClosure(S) ==
    LET T == S \cup { e[2] : e \in { d \in probe.edges : d[1] \in S } }
    IN  IF T = S THEN S ELSE EdgeClosure(T)

ReachedFrom(n) == EdgeClosure({ e[2] : e \in { d \in probe.edges : d[1] = n } })

\* the edges added form a directed cycle
HasCycle == \E n \in NodeIds : n \in ReachedFrom(n)

\* the place of node n in what was pushed
PlaceOf(n) == CHOOSE k \in 1..Len(Pushed) : Pushed[k] = n

\* C25: for every acyclic graph built by add_node and add_edge calls,
\* topological_sort outputs each node of the graph exactly once, and for
\* every edge add_edge(from, to) the node `to` comes before `from`.
C25_TopologicalOrder ==
    (Sorted /\ ~HasCycle) =>
       /\ Len(Pushed) = Cardinality(DOMAIN probe.nodes)
       /\ Range(Pushed) = DOMAIN probe.nodes
       /\ \A e \in probe.edges : PlaceOf(e[2]) < PlaceOf(e[1])

\* the graph of add_edge(2, 3) and add_edge(3, 1) has been sorted: 1, then 3,
\* then 2
C25_Witness ==
    /\ Sorted
    /\ probe.edges = {<<2, 3>>, <<3, 1>>}
    /\ Pushed = <<1, 3, 2>>

\* C26: topological_sort raises cycle_error if and only if the graph holds
\* a directed cycle, an edge from a node to itself being one; for every
\* acyclic graph it returns without error.
C26_CycleErrorIffCycle ==
    Sorted => (~probe.out.ok <=> HasCycle)

\* the graph of add_edge(1, 2), add_edge(2, 3), add_edge(3, 1) has been
\* sorted and cycle_error was raised
C26_Witness ==
    /\ Sorted
    /\ probe.edges = {<<1, 2>>, <<2, 3>>, <<3, 1>>}
    /\ ~probe.out.ok

\* the graph of add_edge(1, 1) has been sorted and cycle_error was raised
C26_WitnessSelfEdge ==
    /\ Sorted
    /\ probe.edges = {<<1, 1>>}
    /\ ~probe.out.ok

\* the step is the call add_node(id)
AddNodeCalled(id) ==
    /\ probe.op = "graph"
    /\ probe'.n = probe.n + 1
    /\ probe'.last = [fn |-> "add_node", node |-> id]

\* the step is the call add_edge(from, to)
AddEdgeCalled(from, to) ==
    /\ probe.op = "graph"
    /\ probe'.n = probe.n + 1
    /\ probe'.last = [fn |-> "add_edge", node |-> from, toNode |-> to]

\* the dependency set of node n, empty when n is not in the map
DepsOf(nodes, n) == IF n \in DOMAIN nodes THEN nodes[n] ELSE {}

\* C27: add_node is idempotent.  add_node(id) on an id that is not in the
\* graph creates it with an empty dependency set; on an id that is in the
\* graph it changes nothing, and does not reset the node's dependency set;
\* add_edge(from, to) called again with the same arguments leaves the graph
\* as it was after the first call.
C27_AddNodeIdempotent ==
    [][/\ \A id \in NodeIds :
             AddNodeCalled(id) =>
                IF id \in DOMAIN probe.nodes
                  THEN probe'.nodes = probe.nodes
                  ELSE /\ DOMAIN probe'.nodes = DOMAIN probe.nodes \cup {id}
                       /\ probe'.nodes[id] = {}
                       /\ \A n \in DOMAIN probe.nodes :
                             probe'.nodes[n] = probe.nodes[n]
       /\ \A from \in NodeIds, to \in NodeIds :
             (AddEdgeCalled(from, to) /\ <<from, to>> \in probe.edges)
                => probe'.nodes = probe.nodes]_vars

\* add_node(1) has been called on a graph in which node 1 had the
\* dependency 2, and node 1 still has it
C27_Witness ==
    /\ probe.op = "graph"
    /\ probe.edges = {<<1, 2>>}
    /\ probe.n = 2
    /\ probe.last = [fn |-> "add_node", node |-> 1]
    /\ probe.nodes[1] = {2}

\* add_edge(1, 2) has been called twice
C27_WitnessEdgeTwice ==
    /\ probe.op = "graph"
    /\ probe.edges = {<<1, 2>>}
    /\ probe.n = 2
    /\ probe.last = [fn |-> "add_edge", node |-> 1, toNode |-> 2]

\* C28: graph invariant.  After any sequence of add_node and add_edge calls
\* every node id in some node's dependency set is a key of the node map,
\* and add_edge(from, to) records `to` in the dependency set of `from` and
\* in no other.
C28_GraphInvariant ==
    /\ [](probe.op = "graph" =>
             \A n \in DOMAIN probe.nodes : probe.nodes[n] \subseteq DOMAIN probe.nodes)
    /\ [][\A from \in NodeIds, to \in NodeIds :
             AddEdgeCalled(from, to) =>
                /\ DOMAIN probe'.nodes = DOMAIN probe.nodes \cup {from, to}
                /\ probe'.nodes[from] = DepsOf(probe.nodes, from) \cup {to}
                /\ \A n \in DOMAIN probe'.nodes \ {from} :
                      probe'.nodes[n] = DepsOf(probe.nodes, n)]_vars

\* add_edge(1, 2) has been called on an empty graph: node 2 is in the map
\* with an empty dependency set
C28_Witness ==
    /\ probe.op = "graph"
    /\ probe.n = 1
    /\ probe.last = [fn |-> "add_edge", node |-> 1, toNode |-> 2]
    /\ DOMAIN probe.nodes = {1, 2}
    /\ probe.nodes[2] = {}

\* what the second call of topological_sort has pushed onto its list
PushedAgain ==
    SubSeq(probe.again.output_list, Len(probe.again.given) + 1,
           Len(probe.again.output_list))

\* C35: topological_sort does not modify the graph.  After a sort, whether
\* it succeeded or raised cycle_error, every node and every dependency set
\* of the graph is as before the call, so a second sort of the same graph
\* produces the same outcome.
C35_SortLeavesGraph ==
    /\ []((probe.op = "graph" /\ probe.again.set) =>
             /\ probe.again.ok = probe.out.ok
             /\ PushedAgain = Pushed)
    /\ [][(probe.op = "graph" /\ probe'.last.fn = "topological_sort")
             => probe'.nodes = probe.nodes]_vars

\* a graph with the edge 2 -> 1 has been sorted twice, and both sorts pushed
\* 1, then 2
C35_Witness ==
    /\ probe.op = "graph"
    /\ probe.again.set
    /\ probe.again.ok
    /\ probe.nodes = (1 :> {} @@ 2 :> {1})
    /\ PushedAgain = <<1, 2>>

\* a graph with a cycle has been sorted twice, and both sorts raised
\* cycle_error
C35_WitnessCycle ==
    /\ probe.op = "graph"
    /\ probe.again.set
    /\ ~probe.again.ok
    /\ ~probe.out.ok
    /\ \E n \in DOMAIN probe.nodes : probe.nodes[n] # {}

\* the topological orders of the graph: every node once, every dependency
\* of a node before the node
TopologicalOrders ==
    { p \in [1..Cardinality(DOMAIN probe.nodes) -> DOMAIN probe.nodes] :
         /\ \A i, j \in DOMAIN p : p[i] = p[j] => i = j
         /\ \A i \in DOMAIN p :
               probe.nodes[p[i]] \subseteq { p[j] : j \in 1..(i - 1) } }

\* sequence p comes before sequence q of the same length in the
\* lexicographic order, or is equal to it
LexLeq(p, q) ==
    \/ p = q
    \/ \E i \in DOMAIN p :
          /\ p[i] < q[i]
          /\ \A j \in 1..(i - 1) : p[j] = q[j]

\* the nodes that can be emitted after the first k - 1 pushed ones: not yet
\* pushed, every dependency pushed
ReadyAt(k) ==
    { n \in DOMAIN probe.nodes :
         /\ n \notin { Pushed[j] : j \in 1..(k - 1) }
         /\ probe.nodes[n] \subseteq { Pushed[j] : j \in 1..(k - 1) } }

\* C36: topological_sort is deterministic.  At every step it emits the
\* smallest node id whose remaining dependency set is empty (the node map
\* iterates in ascending id order), so for an acyclic graph the output is
\* the lexicographically smallest topological order, whatever the order in
\* which the nodes and edges were added.
C36_SmallestReadyFirst ==
    Sorted =>
       /\ \A k \in 1..Len(Pushed) :
             Pushed[k] \in ReadyAt(k) /\ \A n \in ReadyAt(k) : Pushed[k] <= n
       /\ probe.out.ok =>
             /\ Pushed \in TopologicalOrders
             /\ \A p \in TopologicalOrders : LexLeq(Pushed, p)
       /\ ~probe.out.ok => ReadyAt(Len(Pushed) + 1) = {}

\* nodes 3 and 1 depend on 2: of the two topological orders 2, 1, 3 and
\* 2, 3, 1 the sort has pushed the first
C36_Witness ==
    /\ Sorted
    /\ probe.nodes = (1 :> {2} @@ 2 :> {} @@ 3 :> {2})
    /\ Cardinality(TopologicalOrders) = 2
    /\ Pushed = <<2, 1, 3>>

\* the graph of the calls add_edge(3, 2) and add_node(1), made in any order,
\* has been sorted to 1, 2, 3
C36_WitnessAddedDescending ==
    /\ Sorted
    /\ probe.edges = {<<3, 2>>}
    /\ probe.nodes = (1 :> {} @@ 2 :> {} @@ 3 :> {2})
    /\ Pushed = <<1, 2, 3>>

UnitInit ==
    \/ ReadCharInit
    \/ InputStateInit
    \/ MacroTypeInit

UnitNext ==
    \/ ApplyReadChar
    \/ InputStateRead
    \/ InputStateExpect
    \/ ApplyGetInputState
    \/ ApplySetInputState
    \/ ApplyRestoreInputState
    \/ ApplyMacroTypeFromMacroBegin

UnitSpec == UnitInit /\ [][UnitNext]_vars

====
